---------------------------- MODULE Spec2Model ----------------------------
(***************************************************************************)
(* Model of the Python cross-validation suite of newtons-method:           *)
(*   - comparator.py     compare_results (the three-level verdict)         *)
(*   - scipy_runner.py   gradient_descent_fixed, gradient_descent_linesearch*)
(*                       and the dispatch of run_scipy_optimizer           *)
(*   - data_problems.py  PerceptronSVM objective / gradient,               *)
(*                       get_data_problem                                  *)
(*   - problems.py       get_problem                                       *)
(*   - ts_runner.py      run_typescript_test, parse_ts_output              *)
(*   - validate_with_python.py  get_test_cases, run_single_test, main      *)
(*                                                                         *)
(* Numbers.  The code computes in IEEE doubles; the model computes the     *)
(* same expressions exactly, on fixed-point integers:                      *)
(*   - comparator losses are integers in units of 1e-10 (so the 1e-10 of   *)
(*     the relative-loss denominator is LossEps = 1), or the tokens inf    *)
(*     and nan;                                                            *)
(*   - comparator positions are 2-vectors in units of 0.1, or nan; the     *)
(*     Euclidean norm is compared through its square;                      *)
(*   - driver positions, losses and step sizes are integers in units of    *)
(*     2^-20 (Scale = 2^20), which holds every step size 1, 1/2, ...,      *)
(*     2^-20 of the backtracking search exactly.                           *)
(***************************************************************************)
EXTENDS Integers, Sequences, FiniteSets, TLC

VARIABLES
    \* ---- compare_results (comparator.py) ----
    cmp_pc,          \* "idle" | "call" | "returned"
    python_result,   \* first argument of compare_results
    ts_result,       \* second argument of compare_results
    problem_name,    \* third argument of compare_results
    status,          \* returned ComparisonStatus
    issues,          \* returned details['issues']
    \* ---- run_scipy_optimizer and the two hand-rolled drivers ----
    pc,              \* position of the driver
    problem,         \* the Problem: labels of a PerceptronSVM dataset
    algorithm,       \* the algorithm name given to run_scipy_optimizer
    x0,              \* initial point
    max_iter,        \* iteration cap
    step,            \* alpha of gradient_descent_fixed
    w,               \* current position
    i,               \* outer loop index
    iterations,      \* the history list `iterations`
    loss,            \* loss of the current outer iteration
    direction,       \* -grad of the current outer iteration
    dir_grad,        \* np.dot(direction, grad)
    alpha,           \* line-search step size
    trial,           \* line-search trial index
    trials,          \* observation: the trials evaluated in this outer iteration
    applied,         \* observation: the updates applied to w so far
    result,          \* the returned dict
    evals,           \* observation: evaluations of the problem's functions
    calls,           \* observation: invocations of the IterationCallback
    delegated,       \* observation: optimize.minimize has been called
    delegate_end,    \* observation: how optimize.minimize ended
    \* ---- run_typescript_test / parse_ts_output (ts_runner.py) ----
    ts_pc,           \* "idle" | "call" | "returned"
    proc,            \* how subprocess.run ends: kind, stdout, stderr
    initial,         \* the `initial` argument
    ts_out,          \* the returned dict
    spawned,         \* observation: number of times the process was started
    \* ---- get_problem / get_data_problem ----
    cat_pc,          \* "idle" | "call" | "returned"
    cat_call,        \* the call: function, problem name, variant
    cat_out,         \* what the call did: raised / returned, file opened
    \* ---- main (validate_with_python.py) ----
    batch_pc,        \* "idle" | "start" | "loop" | "exited"
    args,            \* the parsed command line: problem and algorithm filters
    test_cases,      \* the filtered list of configurations
    case_idx,        \* number of configurations processed so far
    processed,       \* observation: the configurations processed, in order
    results,         \* the buckets 'pass', 'suspicious', 'fail'
    last,            \* observation: what happened in the last loop pass
    summary,         \* observation: the printed tri-count summary
    exit_code,       \* the value main returns
    \* ---- run_single_test (validate_with_python.py), step by step ----
    st_pc,           \* "idle" | "lookup" | "python" | "bridge" | "compare" |
                     \* "returned" | "raised"
    test_case,       \* the configuration run_single_test is called with
    call_log,        \* observation: the functions called so far, in order
    \* ---- test_gradient_verification.py ----
    fd_pc,           \* "idle" | "gradient" | "hessian" | "done"
    fd_problem,      \* the problem under test: its class and its dataset
    fd_results       \* the list `results`: (test name, passed)

cmp_vars == <<cmp_pc, python_result, ts_result, problem_name, status, issues>>
gd_vars  == <<pc, problem, algorithm, x0, max_iter, step, w, i, iterations, loss,
              direction, dir_grad, alpha, trial, trials, applied, result>>
opt_vars == <<evals, calls, delegated, delegate_end>>
ts_vars  == <<ts_pc, proc, initial, ts_out, spawned>>
cat_vars == <<cat_pc, cat_call, cat_out>>
batch_vars == <<batch_pc, args, test_cases, case_idx, processed, results, last,
                summary, exit_code, st_pc, test_case, call_log,
                fd_pc, fd_problem, fd_results>>
vars     == <<cmp_vars, gd_vars, opt_vars, ts_vars, cat_vars, batch_vars>>

\* the components that are not running in a specification
TSIdle ==
    /\ ts_pc = "idle" /\ proc = [kind |-> "none"] /\ initial = <<>>
    /\ ts_out = [returned |-> FALSE] /\ spawned = 0
CatIdle ==
    /\ cat_pc = "idle" /\ cat_call = [fn |-> "none"] /\ cat_out = [returned |-> FALSE]
SingleIdle ==
    /\ st_pc = "idle" /\ test_case = [problem |-> "None"] /\ call_log = <<>>
VerifyIdle ==
    /\ fd_pc = "idle" /\ fd_problem = [class |-> "None"] /\ fd_results = <<>>
BatchIdle ==
    /\ SingleIdle /\ VerifyIdle
    /\ batch_pc = "idle" /\ args = [problem |-> "None", algorithm |-> "None"]
    /\ test_cases = <<>> /\ case_idx = 0 /\ processed = <<>>
    /\ results = [pass |-> <<>>, suspicious |-> <<>>, fail |-> <<>>]
    /\ last = [kind |-> "none"] /\ summary = [printed |-> FALSE] /\ exit_code = -1

Abs(n) == IF n < 0 THEN -n ELSE n
Max(a, b) == IF a >= b THEN a ELSE b
Min(a, b) == IF a <= b THEN a ELSE b

(***************************************************************************)
(*                      comparator.py : compare_results                    *)
(***************************************************************************)

\* ComparisonStatus
PASS == "PASS"
SUSPICIOUS == "SUSPICIOUS"
FAIL == "FAIL"

\* 1e-10 of `abs(py_loss) + 1e-10`, in loss units of 1e-10
LossEps == 1
\* thresholds on relative_loss_diff, in hundredths: 0.10 and 0.01
PctDen == 100
FailLossPct == 10
SuspLossPct == 1
\* thresholds on w_diff, in position units of 0.1: 1.0 and 0.1
PosFail == 10
PosSusp == 1
\* threshold on iter_ratio
IterRatioMax == 3

SADDLE == "non-convex-saddle"

\* np.isfinite(loss)
IsFinite(l) == l.kind = "finite"

\* relative_loss_diff > pct/100, where
\* relative_loss_diff = abs(py_loss - ts_loss) / (abs(py_loss) + 1e-10)
RelLossDiffGt(py_loss, ts_loss, pct) ==
    PctDen * Abs(py_loss.v - ts_loss.v) > pct * (Abs(py_loss.v) + LossEps)

\* square of np.linalg.norm(a - b) for finite a, b
NormSqDiff(a, b) ==
    (a.c[1] - b.c[1]) * (a.c[1] - b.c[1]) + (a.c[2] - b.c[2]) * (a.c[2] - b.c[2])

\* w_diff is nan as soon as a coordinate of either position is nan
WDiffIsNan(a, b) == a.kind = "nan" \/ b.kind = "nan"

\* w_diff > t   (every comparison with nan is False)
WDiffGt(a, b, t) == ~WDiffIsNan(a, b) /\ NormSqDiff(a, b) > t * t

\* w_diff <= t
WDiffLeq(a, b, t) == ~WDiffIsNan(a, b) /\ NormSqDiff(a, b) <= t * t

\* mutant: iter_ratio >= 3.0
IterRatioIssue_Geq(py_iters, ts_iters) ==
    /\ py_iters > 0 /\ ts_iters > 0
    /\ Max(py_iters, ts_iters) >= IterRatioMax * Max(Min(py_iters, ts_iters), 1)

\* mutant: the ratio is tested whatever the two counts are
IterRatioIssue_Unguarded(py_iters, ts_iters) ==
    Max(py_iters, ts_iters) > IterRatioMax * Max(Min(py_iters, ts_iters), 1)

\* iter_ratio = max(py, ts) / max(min(py, ts), 1) > 3.0, checked when both > 0
IterRatioIssue(py_iters, ts_iters) ==
    /\ py_iters > 0 /\ ts_iters > 0
    /\ Max(py_iters, ts_iters) > IterRatioMax * Max(Min(py_iters, ts_iters), 1)

\* mutants of the saddle special case: the name is not the catalogue's; the
\* name is not tested; one diverged run is enough
SaddleBothDiverged_WrongName(py, ts, name) ==
    name = "saddle" /\ ~py.converged /\ ~ts.converged
SaddleBothDiverged_AnyName(py, ts, name) ==
    ~py.converged /\ ~ts.converged
SaddleBothDiverged_Either(py, ts, name) ==
    name = SADDLE /\ (~py.converged \/ ~ts.converged)

\* line 43-44: the saddle special case
SaddleBothDiverged(py, ts, name) ==
    name = SADDLE /\ ~py.converged /\ ~ts.converged

\* line 49
ConvergenceMismatch(py, ts) == py.converged # ts.converged

\* mutant: the rule asks for a finite reference loss
BothDiverged_FiniteLoss(py, ts) ==
    ~py.converged /\ ~ts.converged /\ IsFinite(py.final_loss)

\* line 58
BothDiverged(py, ts) == ~py.converged /\ ~ts.converged

\* line 68
NonFiniteLoss(py, ts) == ~IsFinite(py.final_loss) \/ ~IsFinite(ts.final_loss)

\* mutant: the difference is taken relative to the second record's loss
LossFail_RelativeToTs(py, ts) ==
    RelLossDiffGt(ts.final_loss, py.final_loss, FailLossPct)

\* line 77
LossFail(py, ts) == RelLossDiffGt(py.final_loss, ts.final_loss, FailLossPct)

\* line 87
PositionFail(py, ts) == WDiffGt(py.final_w, ts.final_w, PosFail)

\* mutant: the position issue is appended before the other two
SuspiciousIssues_PositionFirst(py, ts) ==
    (IF WDiffGt(py.final_w, ts.final_w, PosSusp)
           /\ WDiffLeq(py.final_w, ts.final_w, PosFail)
        THEN <<"Final positions differ">> ELSE <<>>)
    \o (IF RelLossDiffGt(py.final_loss, ts.final_loss, SuspLossPct)
        THEN <<"Loss differs">> ELSE <<>>)
    \o (IF IterRatioIssue(py.iterations, ts.iterations)
        THEN <<"Iteration count differs">> ELSE <<>>)

\* lines 92-112: the SUSPICIOUS-level issues, in the order they are appended
SuspiciousIssues(py, ts) ==
    (IF RelLossDiffGt(py.final_loss, ts.final_loss, SuspLossPct)
        THEN <<"Loss differs">> ELSE <<>>)
    \o (IF IterRatioIssue(py.iterations, ts.iterations)
        THEN <<"Iteration count differs">> ELSE <<>>)
    \o (IF WDiffGt(py.final_w, ts.final_w, PosSusp)
           /\ WDiffLeq(py.final_w, ts.final_w, PosFail)
        THEN <<"Final positions differ">> ELSE <<>>)

\* compare_results(python_result, ts_result, problem_name) -> (status, issues)
CompareResults(py, ts, name) ==
    IF SaddleBothDiverged(py, ts, name)
    THEN [status |-> PASS, issues |-> <<"Both correctly diverged (unbounded problem)">>]
    ELSE IF ConvergenceMismatch(py, ts)
    THEN [status |-> FAIL, issues |-> <<"Convergence mismatch">>]
    ELSE IF BothDiverged(py, ts)
    THEN [status |-> SUSPICIOUS, issues |-> <<"Both diverged (unexpected for this problem)">>]
    ELSE IF NonFiniteLoss(py, ts)
    THEN [status |-> FAIL, issues |-> <<"Non-finite loss">>]
    ELSE IF LossFail(py, ts)
    THEN [status |-> FAIL, issues |-> <<"Loss differs">>]
    ELSE IF PositionFail(py, ts)
    THEN [status |-> FAIL, issues |-> <<"Final positions differ">>]
    ELSE IF SuspiciousIssues(py, ts) # <<>>
    THEN [status |-> SUSPICIOUS, issues |-> SuspiciousIssues(py, ts)]
    ELSE [status |-> PASS, issues |-> <<"All metrics within tolerance">>]

\* ---- the records compare_results is called with ----
MaxIterations == 4

Fin(n) == [kind |-> "finite", v |-> n]
Inf == [kind |-> "inf", v |-> 0]
NaN == [kind |-> "nan", v |-> 0]
\* final losses: 0, +-1e-8, 1.05e-8, 1.11e-8, inf, nan
LossValues == {Fin(0), Fin(100), Fin(-100), Fin(105), Fin(111), Inf, NaN}

Pos(a, b) == [kind |-> "finite", c |-> <<a, b>>]
PosNaN == [kind |-> "nan", c |-> <<0, 0>>]
\* final positions: (0,0), (0.1,0), (1,0), (0.8,0.8), nan
PositionValues == {Pos(0, 0), Pos(1, 0), Pos(10, 0), Pos(8, 8), PosNaN}

ProblemNames == {"quadratic", SADDLE}

ResultRecords ==
    [converged : BOOLEAN, iterations : 0..MaxIterations,
     final_loss : LossValues, final_w : PositionValues]

GDIdle ==
    /\ pc = "idle" /\ problem = <<>> /\ algorithm = "" /\ x0 = 0 /\ max_iter = 0
    /\ step = 0 /\ w = 0 /\ i = 0 /\ iterations = <<>> /\ loss = 0
    /\ direction = 0 /\ dir_grad = 0 /\ alpha = 0 /\ trial = 0
    /\ trials = <<>> /\ applied = <<>> /\ result = [returned |-> FALSE]
    /\ evals = 0 /\ calls = 0 /\ delegated = FALSE
    /\ delegate_end = [kind |-> "none"]

InitCompare ==
    /\ cmp_pc = "call"
    /\ python_result \in ResultRecords
    /\ ts_result \in ResultRecords
    /\ problem_name \in ProblemNames
    /\ status = "" /\ issues = <<>>
    /\ GDIdle /\ TSIdle /\ CatIdle /\ BatchIdle

\* one call of compare_results
Compare ==
    /\ cmp_pc = "call"
    /\ status' = CompareResults(python_result, ts_result, problem_name).status
    /\ issues' = CompareResults(python_result, ts_result, problem_name).issues
    /\ cmp_pc' = "returned"
    /\ UNCHANGED <<python_result, ts_result, problem_name, gd_vars, opt_vars,
                   ts_vars, cat_vars, batch_vars>>

NextCompare == Compare

SpecCompare == InitCompare /\ [][NextCompare]_vars

(***************************************************************************)
(*            data_problems.py : PerceptronSVM (the Problem)               *)
(*                                                                         *)
(* The problem of a run is a PerceptronSVM with lambda_reg = 0 over a      *)
(* dataset whose points all lie at (x1, x2) = (0, 0), so every row of X is *)
(* (0, 0, 1) and z_i = w[2]: the objective and the gradient depend on the  *)
(* bias coordinate alone, and w[0], w[1] never move.  `problem` is the     *)
(* sequence of the labels y in {0, 1} of the points; positions and losses  *)
(* are the bias coordinate and the loss in units of 2^-20; gradients are   *)
(* integers.                                                               *)
(***************************************************************************)
Scale == 2^20

\* self.y = 2 * p['y'] - 1
LabelSign(labels, k) == 2 * labels[k] - 1

\* z = self.X @ w, row k
Margin(labels, k, wv) == LabelSign(labels, k) * wv

RECURSIVE SumPerceptronLoss(_, _, _)
SumPerceptronLoss(labels, k, wv) ==
    IF k = 0 THEN 0
    ELSE Max(0, -Margin(labels, k, wv)) + SumPerceptronLoss(labels, k - 1, wv)

\* PerceptronSVM.objective: sum(max(0, -y*z)) + (lambda/2)*(w0^2 + w1^2)
Objective(labels, wv) == SumPerceptronLoss(labels, Len(labels), wv)

RECURSIVE SumMisclassified(_, _, _)
SumMisclassified(labels, k, wv) ==
    IF k = 0 THEN 0
    ELSE (IF Margin(labels, k, wv) < 0 THEN -LabelSign(labels, k) ELSE 0)
         + SumMisclassified(labels, k - 1, wv)

\* PerceptronSVM.gradient, bias coordinate: grad -= y_i * X_i if y_i*z_i < 0
Gradient(labels, wv) == SumMisclassified(labels, Len(labels), wv)

\* np.linalg.norm(grad) of the vector (0, 0, g)
GradNorm(g) == Abs(g)

(***************************************************************************)
(*   scipy_runner.py : run_scipy_optimizer and the hand-rolled drivers     *)
(***************************************************************************)
\* tol = 1e-6
TolNum == 1
TolDen == 1000000
\* c1 = 0.0001
C1Num == 1
C1Den == 10000
\* rho = 0.5
RhoNum == 1
RhoDen == 2
\* max_line_search_trials = 20
MaxLineSearchTrials == 20

\* mutant: the tolerance is 2 instead of 1e-6
BelowTol_Loose(grad_norm) == grad_norm < 2

\* grad_norm < tol
BelowTol(grad_norm) == grad_norm * TolDen < TolNum

\* mutant: the record carries the index of the next iteration
Record_NextIndex(idx, wv, l, gn) ==
    [iter |-> idx + 1, w |-> wv, loss |-> l, grad_norm |-> gn]

\* the dict appended to `iterations`
Record(idx, wv, l, gn) ==
    [iter |-> idx, w |-> wv, loss |-> l, grad_norm |-> gn]

\* the dict returned when grad_norm < tol
ConvergedResult(idx, wv, l, gn, hist) ==
    [returned |-> TRUE, converged |-> TRUE, iterations |-> idx + 1,
     final_loss |-> l, final_w |-> wv, final_grad_norm |-> gn,
     message |-> "Converged: grad_norm < 1e-06", iteration_history |-> hist]

\* the dict returned after the loop
ExhaustedResult(cap, wv, l, gn, hist) ==
    [returned |-> TRUE, converged |-> FALSE, iterations |-> cap,
     final_loss |-> l, final_w |-> wv, final_grad_norm |-> gn,
     message |-> "Max iterations reached", iteration_history |-> hist]

\* mutant: the step is taken uphill
FixedStep_Ascent(wv, a, grad) == wv + (a * grad)

\* w - alpha * grad   (alpha in units of 2^-20, grad an integer)
FixedStep(wv, a, grad) == wv - (a * grad)

\* w + alpha * direction
LineStep(wv, a, d) == wv + (a * d)

\* new_loss <= loss + c1 * alpha * dir_grad.  The losses are integers (units
\* of 2^-20) and c1 * alpha * dir_grad is the rational C1Num*alpha*dir_grad /
\* C1Den in the same units, so the comparison is the one with its floor.
ArmijoSatisfied(new_loss, l, a, dg) ==
    new_loss - l <= (C1Num * a * dg) \div C1Den

\* mutant: the step is quartered
Backtrack_Quarter(a) == (a * RhoNum) \div (2 * RhoDen)

\* alpha *= rho
Backtrack(a) == (a * RhoNum) \div RhoDen

\* ---- the inputs of a run ----
MaxIter == 3

\* datasets: one point of each label; two points of each label
Datasets == {<<1, 0>>, <<1, 1, 0, 0>>}
\* initial bias coordinate: 0, 2^-20, 0.25, 2.0
X0Values == {0, 1, Scale \div 4, 2 * Scale}
\* alpha of gd-fixed: 1.0, 0.5
StepValues == {Scale, Scale \div 2}
Algorithms == {"gd-fixed", "gd-linesearch"}

CmpIdle ==
    /\ cmp_pc = "idle"
    /\ python_result = [converged |-> FALSE]
    /\ ts_result = [converged |-> FALSE]
    /\ problem_name = "" /\ status = "" /\ issues = <<>>

\* the names run_scipy_optimizer is called with: the four it knows, and two
\* it does not
AlgorithmNames == {"gd-fixed", "gd-linesearch", "newton", "lbfgs", "cg", "bfgs"}

\* a call of run_scipy_optimizer with an algorithm name among `names`
InitRun(names) ==
    /\ CmpIdle /\ TSIdle /\ CatIdle /\ BatchIdle
    /\ pc = "start"
    /\ problem \in Datasets
    /\ algorithm \in names
    /\ x0 \in X0Values
    /\ max_iter \in 0..MaxIter
    /\ step \in (IF algorithm = "gd-fixed" THEN StepValues ELSE {0})
    /\ w = 0 /\ i = 0 /\ iterations = <<>> /\ loss = 0
    /\ direction = 0 /\ dir_grad = 0 /\ alpha = 0 /\ trial = 0
    /\ trials = <<>> /\ applied = <<>> /\ result = [returned |-> FALSE]
    /\ evals = 0 /\ calls = 0 /\ delegated = FALSE
    /\ delegate_end = [kind |-> "none"]

InitGD == InitRun(Algorithms)

\* method_map
MethodMap == [newton |-> "Newton-CG", lbfgs |-> "L-BFGS-B"]

\* mutant: the name is looked up after the delegate has started
Dispatch_NoCheck(name) ==
    IF name = "gd-fixed" THEN "fixed_loop"
    ELSE IF name = "gd-linesearch" THEN "ls_loop"
    ELSE "minimize"

\* where run_scipy_optimizer goes for an algorithm name (lines 186-205)
Dispatch(name) ==
    IF name = "gd-fixed" THEN "fixed_loop"
    ELSE IF name = "gd-linesearch" THEN "ls_loop"
    ELSE IF name \notin DOMAIN MethodMap THEN "raised"
    ELSE "minimize"

\* run_scipy_optimizer: dispatch to the driver; the driver starts with
\* w = x0.copy() and iterations = []
RunScipyOptimizer ==
    /\ pc = "start"
    /\ pc' = Dispatch(algorithm)
    /\ IF Dispatch(algorithm) = "raised"
       THEN /\ result' = [returned |-> FALSE, raised |-> "Unknown algorithm"]
            /\ UNCHANGED <<w, i, iterations>>
       ELSE /\ w' = x0
            /\ i' = 0
            /\ iterations' = <<>>
            /\ UNCHANGED result
    /\ delegated' = (Dispatch(algorithm) = "minimize")
    /\ UNCHANGED <<cmp_vars, problem, algorithm, x0, max_iter, step, loss,
                   direction, dir_grad, alpha, trial, trials, applied,
                   evals, calls, delegate_end, ts_vars, cat_vars,
                   batch_vars>>

\* gradient_descent_fixed: one pass of the loop body (lines 37-60)
FixedIterate ==
    /\ pc = "fixed_loop"
    /\ i < max_iter
    /\ LET grad == Gradient(problem, w)
           grad_norm == GradNorm(grad)
           cur_loss == Objective(problem, w)
           hist == Append(iterations, Record(i, w, cur_loss, grad_norm))
       IN /\ iterations' = hist
          /\ IF BelowTol(grad_norm)
             THEN /\ result' = ConvergedResult(i, w, cur_loss, grad_norm, hist)
                  /\ pc' = "done"
                  /\ UNCHANGED <<w, i, applied>>
             ELSE /\ w' = FixedStep(w, step, grad)
                  /\ i' = i + 1
                  /\ applied' = Append(applied,
                         [alpha |-> step, w_before |-> w,
                          w_after |-> FixedStep(w, step, grad)])
                  /\ UNCHANGED <<pc, result>>
    /\ evals' = evals + 2
    /\ UNCHANGED <<cmp_vars, calls, delegated, delegate_end, ts_vars, cat_vars, batch_vars, problem, algorithm, x0, max_iter, step, loss,
                   direction, dir_grad, alpha, trial, trials>>

\* gradient_descent_fixed: after the loop (lines 62-82)
FixedExhausted ==
    /\ pc = "fixed_loop"
    /\ i = max_iter
    /\ LET final_grad_norm == GradNorm(Gradient(problem, w))
           final_loss == Objective(problem, w)
           hist == Append(iterations, Record(max_iter, w, final_loss, final_grad_norm))
       IN /\ iterations' = hist
          /\ result' = ExhaustedResult(max_iter, w, final_loss, final_grad_norm, hist)
    /\ pc' = "done"
    /\ evals' = evals + 2
    /\ UNCHANGED <<cmp_vars, calls, delegated, delegate_end, ts_vars, cat_vars, batch_vars, problem, algorithm, x0, max_iter, step, w, i, loss,
                   direction, dir_grad, alpha, trial, trials, applied>>

\* gradient_descent_linesearch: head of the loop body (lines 107-136)
LSIterate ==
    /\ pc = "ls_loop"
    /\ i < max_iter
    /\ LET cur_loss == Objective(problem, w)
           grad == Gradient(problem, w)
           grad_norm == GradNorm(grad)
           hist == Append(iterations, Record(i, w, cur_loss, grad_norm))
       IN /\ iterations' = hist
          /\ loss' = cur_loss
          /\ IF BelowTol(grad_norm)
             THEN /\ result' = ConvergedResult(i, w, cur_loss, grad_norm, hist)
                  /\ pc' = "done"
                  /\ UNCHANGED <<direction, dir_grad, alpha, trial, trials>>
             ELSE /\ direction' = -grad
                  /\ dir_grad' = (-grad) * grad
                  /\ alpha' = Scale
                  /\ trial' = 0
                  /\ trials' = <<>>
                  /\ pc' = "ls_search"
                  /\ UNCHANGED result
    /\ evals' = evals + 2
    /\ UNCHANGED <<cmp_vars, calls, delegated, delegate_end, ts_vars, cat_vars, batch_vars, problem, algorithm, x0, max_iter, step, w, i, applied>>

\* gradient_descent_linesearch: one backtracking trial (lines 137-147)
LSTrial ==
    /\ pc = "ls_search"
    /\ trial < MaxLineSearchTrials
    /\ LET w_new == LineStep(w, alpha, direction)
           new_loss == Objective(problem, w_new)
           ok == ArmijoSatisfied(new_loss, loss, alpha, dir_grad)
       IN /\ trials' = Append(trials, [alpha |-> alpha, armijo |-> ok])
          /\ IF ok
             THEN /\ pc' = "ls_update"
                  /\ UNCHANGED <<alpha, trial>>
             ELSE /\ alpha' = Backtrack(alpha)
                  /\ trial' = trial + 1
                  /\ pc' = (IF trial + 1 < MaxLineSearchTrials
                            THEN "ls_search" ELSE "ls_update")
    /\ evals' = evals + 1
    /\ UNCHANGED <<cmp_vars, calls, delegated, delegate_end, ts_vars, cat_vars, batch_vars, problem, algorithm, x0, max_iter, step, w, i,
                   iterations, loss, direction, dir_grad, applied, result>>

\* gradient_descent_linesearch: w = w + alpha * direction (line 150)
LSUpdate ==
    /\ pc = "ls_update"
    /\ w' = LineStep(w, alpha, direction)
    /\ i' = i + 1
    /\ applied' = Append(applied,
           [alpha |-> alpha, w_before |-> w,
            w_after |-> LineStep(w, alpha, direction),
            armijo |-> ArmijoSatisfied(
                           Objective(problem, LineStep(w, alpha, direction)),
                           loss, alpha, dir_grad),
            trials |-> trials])
    /\ pc' = "ls_loop"
    /\ UNCHANGED <<cmp_vars, opt_vars, ts_vars, cat_vars, batch_vars, problem, algorithm, x0, max_iter, step, iterations,
                   loss, direction, dir_grad, alpha, trial, trials, result>>

\* gradient_descent_linesearch: after the loop (lines 152-172)
LSExhausted ==
    /\ pc = "ls_loop"
    /\ i = max_iter
    /\ LET final_loss == Objective(problem, w)
           final_grad_norm == GradNorm(Gradient(problem, w))
           hist == Append(iterations, Record(max_iter, w, final_loss, final_grad_norm))
       IN /\ iterations' = hist
          /\ result' = ExhaustedResult(max_iter, w, final_loss, final_grad_norm, hist)
    /\ pc' = "done"
    /\ evals' = evals + 2
    /\ UNCHANGED <<cmp_vars, calls, delegated, delegate_end, ts_vars, cat_vars, batch_vars, problem, algorithm, x0, max_iter, step, w, i, loss,
                   direction, dir_grad, alpha, trial, trials, applied>>

NextGD ==
    \/ RunScipyOptimizer
    \/ FixedIterate
    \/ FixedExhausted
    \/ LSIterate
    \/ LSTrial
    \/ LSUpdate
    \/ LSExhausted

SpecGD == InitGD /\ [][NextGD]_vars

(***************************************************************************)
(* The delegated solvers (scipy_runner.py, lines 204-256).                 *)
(*                                                                         *)
(* optimize.minimize is library code: its iterates are drawn from a small  *)
(* set, and it ends by returning (success or not) or by raising.  What the *)
(* repository's code does around it is modelled exactly: the               *)
(* IterationCallback, the returned dict and the except branch.             *)
(***************************************************************************)
\* the iterates the solver may hand to the callback
XkValues == X0Values

\* the texts of the exceptions the solver may raise
ExceptionTexts == {"math domain error"}

\* mutant: the callback keeps only the latest record of a run
Callback_Overwrite(hist, prob, xk) ==
    IF hist = <<>>
    THEN <<Record(0, xk, Objective(prob, xk), GradNorm(Gradient(prob, xk)))>>
    ELSE [hist EXCEPT ![Len(hist)] =
             Record(Len(hist) - 1, xk, Objective(prob, xk),
                    GradNorm(Gradient(prob, xk)))]

\* IterationCallback.__call__: the list after one invocation with xk
Callback(hist, prob, xk) ==
    Append(hist, Record(Len(hist), xk, Objective(prob, xk),
                        GradNorm(Gradient(prob, xk))))

\* the dict returned after optimize.minimize returned (lines 237-245)
MinimizeResult(success, x, prob, hist) ==
    [returned |-> TRUE, converged |-> success, iterations |-> Len(hist),
     final_loss |-> Fin(Objective(prob, x)), final_w |-> x,
     final_grad_norm |-> Fin(GradNorm(Gradient(prob, x))),
     message |-> "result.message", iteration_history |-> hist]

\* mutant: the except branch reports the last iterate
ErrorResult_LastIterate(start, last_w, hist, text) ==
    [returned |-> TRUE, converged |-> FALSE, iterations |-> Len(hist),
     final_loss |-> Inf, final_w |-> last_w, final_grad_norm |-> Inf,
     message |-> "Error: " \o text, iteration_history |-> hist]

\* the dict returned by the except branch (lines 247-256)
ErrorResult(start, last_w, hist, text) ==
    [returned |-> TRUE, converged |-> FALSE, iterations |-> Len(hist),
     final_loss |-> Inf, final_w |-> start, final_grad_norm |-> Inf,
     message |-> "Error: " \o text, iteration_history |-> hist]

\* one iteration of the solver: it evaluates the problem and calls the
\* callback with the new iterate
MinimizeIterate ==
    /\ pc = "minimize"
    /\ i < max_iter
    /\ \E xk \in XkValues :
          /\ w' = xk
          /\ iterations' = Callback(iterations, problem, xk)
    /\ i' = i + 1
    /\ calls' = calls + 1
    /\ evals' = evals + 4
    /\ UNCHANGED <<cmp_vars, pc, delegated, delegate_end, ts_vars, cat_vars, batch_vars, problem,
                   algorithm, x0, max_iter, step, loss, direction, dir_grad,
                   alpha, trial, trials, applied, result>>

\* optimize.minimize returns: the try body builds the dict
MinimizeReturn ==
    /\ pc = "minimize"
    /\ \E success \in BOOLEAN :
          /\ delegate_end' = [kind |-> "returned", success |-> success]
          /\ result' = MinimizeResult(success, w, problem, iterations)
    /\ pc' = "done"
    /\ evals' = evals + 1
    /\ UNCHANGED <<cmp_vars, calls, delegated, ts_vars, cat_vars, batch_vars,
                   problem, algorithm, x0, max_iter, step, w, i, iterations,
                   loss, direction, dir_grad, alpha, trial, trials, applied>>

\* optimize.minimize raises: the except branch builds the dict
MinimizeRaise ==
    /\ pc = "minimize"
    /\ \E text \in ExceptionTexts :
          /\ delegate_end' = [kind |-> "raised", text |-> text]
          /\ result' = ErrorResult(x0, w, iterations, text)
    /\ pc' = "done"
    /\ UNCHANGED <<cmp_vars, evals, calls, delegated, ts_vars, cat_vars, batch_vars,
                   problem, algorithm, x0, max_iter, step, w, i, iterations,
                   loss, direction, dir_grad, alpha, trial, trials, applied>>

InitOptimizer == InitRun(AlgorithmNames)

NextOptimizer ==
    \/ RunScipyOptimizer
    \/ FixedIterate
    \/ FixedExhausted
    \/ LSIterate
    \/ LSTrial
    \/ LSUpdate
    \/ LSExhausted
    \/ MinimizeIterate
    \/ MinimizeReturn
    \/ MinimizeRaise

SpecOptimizer == InitOptimizer /\ [][NextOptimizer]_vars

(***************************************************************************)
(* The problem catalogue: get_problem (problems.py) and get_data_problem   *)
(* (data_problems.py).  A call either returns a problem or raises; the     *)
(* model records whether load_dataset's open() was called on the way.      *)
(***************************************************************************)
\* the keys of get_problem's dict
problems == {"quadratic", "ill-conditioned-quadratic", "rosenbrock", SADDLE}

NoVariant == "None"

\* raise ValueError(text), with open() called or not before it
Raised(text, open_called) ==
    [kind |-> "raised", error |-> "ValueError", text |-> text,
     open_called |-> open_called]

\* get_problem(name)
GetProblem(name) ==
    IF name \notin problems
    THEN Raised("Unknown problem: " \o name, FALSE)
    ELSE [kind |-> "returned", bundle |-> name, open_called |-> FALSE]

\* a constructor of data_problems.py: load_dataset opens the file first
Construct(class, file_ok) ==
    IF file_ok
    THEN [kind |-> "returned", bundle |-> class, open_called |-> TRUE]
    ELSE [kind |-> "raised", error |-> "FileNotFoundError",
          text |-> "[Errno 2] No such file or directory",
          open_called |-> TRUE]

\* mutant: an unrecognized variant falls back to the soft-margin problem
GetDataProblem_DefaultVariant(name, variant, file_ok) ==
    IF name = "logistic-regression" THEN Construct("LogisticRegression", file_ok)
    ELSE IF name = "separating-hyperplane"
    THEN IF variant = "perceptron" THEN Construct("PerceptronSVM", file_ok)
         ELSE IF variant = "squared-hinge" THEN Construct("SquaredHingeSVM", file_ok)
         ELSE Construct("SoftMarginSVM", file_ok)
    ELSE Raised("Unknown data problem: " \o name, FALSE)

\* get_data_problem(problem, variant, dataset_path, lambda_reg)
GetDataProblem(name, variant, file_ok) ==
    IF name = "logistic-regression" THEN Construct("LogisticRegression", file_ok)
    ELSE IF name = "separating-hyperplane"
    THEN IF variant = "soft-margin" THEN Construct("SoftMarginSVM", file_ok)
         ELSE IF variant = "perceptron" THEN Construct("PerceptronSVM", file_ok)
         ELSE IF variant = "squared-hinge" THEN Construct("SquaredHingeSVM", file_ok)
         ELSE Raised("Unknown variant: " \o variant, FALSE)
    ELSE Raised("Unknown data problem: " \o name, FALSE)

\* the names and variants the two functions are called with
CatalogueNames ==
    problems \cup {"himmelblau", "three-hump-camel", "logistic-regression",
                   "separating-hyperplane", "Quadratic", ""}
VariantNames == {"soft-margin", "perceptron", "squared-hinge", "hinge", NoVariant}
LambdaValues == {"0.01", "0.1"}

InitCatalogue ==
    /\ CmpIdle /\ GDIdle /\ TSIdle /\ BatchIdle
    /\ cat_pc = "call"
    /\ cat_out = [returned |-> FALSE]
    /\ \/ \E n \in CatalogueNames :
             cat_call = [fn |-> "get_problem", name |-> n]
       \/ \E n \in CatalogueNames, v \in VariantNames, f \in BOOLEAN,
             l \in LambdaValues :
             cat_call = [fn |-> "get_data_problem", name |-> n, variant |-> v,
                         file_ok |-> f, lambda_reg |-> l]

GetProblemCall ==
    /\ cat_pc = "call"
    /\ cat_call.fn = "get_problem"
    /\ cat_out' = GetProblem(cat_call.name)
    /\ cat_pc' = "returned"
    /\ UNCHANGED <<cmp_vars, gd_vars, opt_vars, ts_vars, batch_vars, cat_call>>

GetDataProblemCall ==
    /\ cat_pc = "call"
    /\ cat_call.fn = "get_data_problem"
    /\ cat_out' = GetDataProblem(cat_call.name, cat_call.variant, cat_call.file_ok)
    /\ cat_pc' = "returned"
    /\ UNCHANGED <<cmp_vars, gd_vars, opt_vars, ts_vars, batch_vars, cat_call>>

NextCatalogue ==
    \/ GetProblemCall
    \/ GetDataProblemCall

SpecCatalogue == InitCatalogue /\ [][NextCatalogue]_vars

(***************************************************************************)
(* The bridge: run_typescript_test and parse_ts_output (ts_runner.py).     *)
(*                                                                         *)
(* The report on standard output is a sequence of tokens, each marked with *)
(* whether a line break follows it.  The regular expressions and the       *)
(* substring tests of parse_ts_output are searches over that sequence; the *)
(* conversions int() and float() are tables over the token vocabulary.     *)
(***************************************************************************)
CheckMark == "U+2705"
WarnMark == "U+26A0"

\* one line of output
Line(tokens) ==
    [k \in 1..Len(tokens) |-> [t |-> tokens[k], nl |-> (k = Len(tokens))]]

\* the first lines the command line tool prints, or none
HeaderLines ==
    { <<>>,
      <<CheckMark, "CONVERGED", "in", "5", "iterations">>,
      <<CheckMark, "CONVERGED">>,
      <<WarnMark, "DID", "NOT", "CONVERGE", "(reached", "maxIter=100)">>,
      <<"DIVERGED", "after", "7", "iterations">> }
IterationLines == { <<>>, <<"Iterations:", "100">> }
LossLines ==
    { <<>>, <<"Final", "loss:">> } \cup
    { <<"Final", "loss:", v>> : v \in {"1.0e-08", "NaN", "abc"} }
GradNormLines ==
    { <<>> } \cup
    { <<"Final", "grad", "norm:", v>> : v \in {"1e-07", "Infinity", "abc"} }
PositionLines ==
    { <<>>, <<"Final", "position:", "[0.1, 0.0]">>,
      <<"Final", "position:", "[a, b]">> }

\* a later line that takes the success back, or none
TrailerLines ==
    { <<>>, <<WarnMark, "DID", "NOT", "CONVERGE", "(reached", "maxIter=100)">> }

\* the reports the external process may print
Reports ==
    { Line(h) \o Line(n) \o Line(l) \o Line(g) \o Line(p) \o Line(x) :
        h \in HeaderLines, n \in IterationLines, l \in LossLines,
        g \in GradNormLines, p \in PositionLines, x \in TrailerLines }

\* -------- lexical tables --------
\* \d+ and int()
IsDigits(t) == t \in {"5", "7", "100"}
IntOf(t) == CASE t = "5" -> 5 [] t = "7" -> 7 [] t = "100" -> 100
\* 'NaN' in t, 'Infinity' in t
HasNaN(t) == t = "NaN"
HasInfinity(t) == t = "Infinity"
\* float(t): the value, in units of 1e-10, or ValueError
ValueError(t) ==
    [ok |-> FALSE, text |-> "could not convert string to float: '" \o t \o "'"]
FloatOf(t) ==
    CASE t = "1.0e-08" -> [ok |-> TRUE, v |-> Fin(100)]
      [] t = "1e-07"   -> [ok |-> TRUE, v |-> Fin(1000)]
      [] IsDigits(t)   -> [ok |-> TRUE, v |-> Fin(IntOf(t) * 10^10)]
      [] OTHER         -> ValueError(t)
\* \[(.*?)\] and the list of float(x.strip())
IsBracketed(t) == t \in {"[0.1, 0.0]", "[a, b]"}
PositionOf(t) ==
    CASE t = "[0.1, 0.0]" -> [ok |-> TRUE, v |-> Pos(1, 0)]
      [] OTHER            -> ValueError("a")

\* -------- the searches of parse_ts_output --------
\* tokens k .. k+Len(words)-1 are `words`, separated by single spaces
Phrase(out, k, words) ==
    /\ k + Len(words) - 1 <= Len(out)
    /\ \A j \in 1..Len(words) :
          /\ out[k + j - 1].t = words[j]
          /\ j < Len(words) => ~out[k + j - 1].nl

\* r'in (\d+) iterations?' and r'after (\d+) iterations?'
MatchCount(out, k, word) ==
    /\ k + 2 <= Len(out)
    /\ out[k].t = word /\ ~out[k].nl
    /\ IsDigits(out[k + 1].t) /\ ~out[k + 1].nl
    /\ out[k + 2].t \in {"iteration", "iterations"}
MatchIn(out, k) == MatchCount(out, k, "in")
MatchAfter(out, k) == MatchCount(out, k, "after")
\* r'Iterations:\s*(\d+)'
MatchIterations(out, k) ==
    /\ k + 1 <= Len(out)
    /\ out[k].t = "Iterations:"
    /\ IsDigits(out[k + 1].t)
\* r'Final loss:\s*(\S+)'
MatchLoss(out, k) == Phrase(out, k, <<"Final", "loss:">>) /\ k + 2 <= Len(out)
\* r'Final grad norm:\s*(\S+)'
MatchGradNorm(out, k) ==
    Phrase(out, k, <<"Final", "grad", "norm:">>) /\ k + 3 <= Len(out)
\* r'Final position:\s*\[(.*?)\]'
MatchPosition(out, k) ==
    /\ Phrase(out, k, <<"Final", "position:">>) /\ k + 2 <= Len(out)
    /\ IsBracketed(out[k + 2].t)

\* re.search: the index of the leftmost match, 0 when there is none
Search(hits) ==
    IF hits = {} THEN 0 ELSE CHOOSE k \in hits : \A j \in hits : k <= j
SearchIn(out) == Search({k \in DOMAIN out : MatchIn(out, k)})
SearchAfter(out) == Search({k \in DOMAIN out : MatchAfter(out, k)})
SearchIterations(out) == Search({k \in DOMAIN out : MatchIterations(out, k)})
SearchLoss(out) == Search({k \in DOMAIN out : MatchLoss(out, k)})
SearchGradNorm(out) == Search({k \in DOMAIN out : MatchGradNorm(out, k)})
SearchPosition(out) == Search({k \in DOMAIN out : MatchPosition(out, k)})

\* the substring tests (HasNaNOrInfinity_NaNOnly is the mutant that does
\* not look for 'Infinity')
HasConvergedMarker(out) ==
    \E k \in DOMAIN out : Phrase(out, k, <<CheckMark, "CONVERGED">>)
HasDidNotConverge(out) ==
    \E k \in DOMAIN out : Phrase(out, k, <<"DID", "NOT", "CONVERGE">>)
HasDiverged(out) == \E k \in DOMAIN out : out[k].t = "DIVERGED"
HasNaNOrInfinity_NaNOnly(out) == \E k \in DOMAIN out : HasNaN(out[k].t)
HasNaNOrInfinity(out) ==
    \E k \in DOMAIN out : HasNaN(out[k].t) \/ HasInfinity(out[k].t)

\* the dict of the four failure returns of ts_runner.py
FailureRecord(init, message, raw_output) ==
    [returned |-> TRUE, converged |-> FALSE, iterations |-> 0,
     final_loss |-> Inf, final_w |-> init, final_grad_norm |-> Inf,
     message |-> message, raw_output |-> raw_output]

\* lines 105-110: the iteration count
ParseIterations(out) ==
    LET a == SearchIn(out)
        b == SearchAfter(out)
        c == SearchIterations(out)
    IN IF a # 0 THEN IntOf(out[a + 1].t)
       ELSE IF b # 0 THEN IntOf(out[b + 1].t)
       ELSE IF c # 0 THEN IntOf(out[c + 1].t)
       ELSE 0

\* lines 113-132: a metric after its label
ParseMetric(out, k, width) ==
    IF k = 0 THEN [ok |-> TRUE, v |-> Inf]
    ELSE IF HasNaN(out[k + width].t) \/ HasInfinity(out[k + width].t)
    THEN [ok |-> TRUE, v |-> Inf]
    ELSE FloatOf(out[k + width].t)

\* lines 135-140: the final position
ParsePosition(out, k, init) ==
    IF k = 0 THEN [ok |-> TRUE, v |-> init] ELSE PositionOf(out[k + 2].t)

\* parse_ts_output(stdout, initial)
ParseTsOutput(out, init) ==
    LET final_loss == ParseMetric(out, SearchLoss(out), 2)
        final_grad_norm == ParseMetric(out, SearchGradNorm(out), 3)
        final_w == ParsePosition(out, SearchPosition(out), init)
        converged ==
            /\ HasConvergedMarker(out)
            /\ ~(HasDidNotConverge(out) \/ HasDiverged(out) \/ HasNaNOrInfinity(out))
            /\ IsFinite(final_loss.v)
    IN IF ~final_loss.ok THEN FailureRecord(init, "Parse error: " \o final_loss.text, out)
       ELSE IF ~final_grad_norm.ok THEN FailureRecord(init, "Parse error: " \o final_grad_norm.text, out)
       ELSE IF ~final_w.ok THEN FailureRecord(init, "Parse error: " \o final_w.text, out)
       ELSE [returned |-> TRUE, converged |-> converged,
             iterations |-> ParseIterations(out),
             final_loss |-> final_loss.v, final_w |-> final_w.v,
             final_grad_norm |-> final_grad_norm.v,
             message |-> "Parsed from CLI output", raw_output |-> out]

\* the default of the `timeout` parameter, in seconds
Timeout == 30

\* mutant: the output of a failed process is parsed like any other
OnNonZeroExit_ParseStdout(p, init) == ParseTsOutput(p.stdout, init)

\* lines 48-57: the process ended with a non-zero status
OnNonZeroExit(p, init) ==
    FailureRecord(init, "CLI error: " \o p.stderr, p.stdout)

\* mutant: a failed run of the process is tried once more
SubprocessRuns_RetryOnFailure(p) ==
    IF p.kind = "exit" /\ p.returncode = 0 THEN 1 ELSE 2

\* lines 39-46: the number of times one call starts the process; the call
\* of subprocess.run is in no loop and no handler calls it again
SubprocessRuns(p) == 1

\* lines 38-80: what run_typescript_test returns when the process ends as p
BridgeResult(p, init) ==
    IF p.kind = "timeout"
    THEN FailureRecord(init, "Timeout after " \o ToString(Timeout) \o "s", <<>>)
    ELSE IF p.kind = "exception"
    THEN FailureRecord(init, "Error: " \o p.text, <<>>)
    ELSE IF p.returncode # 0
    THEN OnNonZeroExit(p, init)
    ELSE ParseTsOutput(p.stdout, init)

\* what the run of the process can do
ProcessOutcomes ==
    { [kind |-> "timeout"] } \cup
    { [kind |-> "exception", text |-> x] :
        x \in {"[Errno 2] No such file or directory: 'npm'"} } \cup
    { [kind |-> "exit", returncode |-> 0, stdout |-> o, stderr |-> ""] :
        o \in Reports } \cup
    { [kind |-> "exit", returncode |-> 1, stdout |-> o, stderr |-> e] :
        o \in { <<>>,
                Line(<<CheckMark, "CONVERGED", "in", "5", "iterations">>)
                  \o Line(<<"Final", "loss:", "1.0e-08">>)
                  \o Line(<<"Final", "grad", "norm:", "1e-07">>) },
        e \in {"", "npm ERR! missing script: test-combo"} }

InitialPoints == {Pos(10, 0), Pos(8, 8)}

InitBridge ==
    /\ CmpIdle /\ GDIdle /\ CatIdle /\ BatchIdle
    /\ ts_pc = "call"
    /\ proc \in ProcessOutcomes
    /\ initial \in InitialPoints
    /\ ts_out = [returned |-> FALSE]
    /\ spawned = 0

\* run_typescript_test: the whole call
RunTypescriptTest ==
    /\ ts_pc = "call"
    /\ spawned' = spawned + SubprocessRuns(proc)
    /\ ts_out' = BridgeResult(proc, initial)
    /\ ts_pc' = "returned"
    /\ UNCHANGED <<cmp_vars, gd_vars, opt_vars, cat_vars, batch_vars, proc, initial>>

NextBridge == RunTypescriptTest

SpecBridge == InitBridge /\ [][NextBridge]_vars

(***************************************************************************)
(* The batch run: get_test_cases, run_single_test and main                 *)
(* (validate_with_python.py).                                              *)
(*                                                                         *)
(* One pass of the loop is one action.  What the reference driver returns  *)
(* and how the external process ends are drawn from small sets; the        *)
(* problem lookup, the bridge, the comparator and the bookkeeping of main  *)
(* are the operators above.  Positions are compared on their first two     *)
(* components.                                                             *)
(***************************************************************************)
PURE_PROBLEMS ==
    <<"quadratic", "ill-conditioned-quadratic", "rosenbrock", SADDLE,
      "himmelblau", "three-hump-camel">>
ALGORITHMS == <<"gd-fixed", "gd-linesearch", "newton", "lbfgs">>
SVM_VARIANTS == <<"soft-margin", "perceptron", "squared-hinge">>

\* an absent key or option
None == "None"

Range(f) == {f[x] : x \in DOMAIN f}

\* lines 27-47: the configuration of a pure problem
PureCase(p, a) ==
    [problem |-> p, algorithm |-> a, variant |-> NoVariant,
     initial |-> Pos(10, 10),
     max_iter |-> (IF a = "gd-fixed" /\ p = "ill-conditioned-quadratic"
                   THEN 1000 ELSE 100),
     alpha |-> (IF a # "gd-fixed" THEN None
                ELSE IF p = "rosenbrock" THEN "0.001"
                ELSE IF p = "ill-conditioned-quadratic" THEN "0.01"
                ELSE "0.1"),
     lambda |-> None]

\* lines 50-77: the configuration of a data problem
DataCase(p, v, a) ==
    [problem |-> p, algorithm |-> a, variant |-> v,
     initial |-> Pos(0, 0), max_iter |-> 100,
     alpha |-> (IF a = "gd-fixed" THEN "0.1" ELSE None),
     lambda |-> "0.01"]
LogisticCase(a) == DataCase("logistic-regression", NoVariant, a)
SvmCase(v, a) == DataCase("separating-hyperplane", v, a)

\* two nested for loops: the outer and the inner element of the k-th pass
Outer(rows, cols, k) == rows[((k - 1) \div Len(cols)) + 1]
Inner(cols, k) == cols[((k - 1) % Len(cols)) + 1]

\* get_test_cases()
GetTestCases ==
    [k \in 1..(Len(PURE_PROBLEMS) * Len(ALGORITHMS)) |->
        PureCase(Outer(PURE_PROBLEMS, ALGORITHMS, k), Inner(ALGORITHMS, k))]
      \o [k \in 1..Len(ALGORITHMS) |-> LogisticCase(ALGORITHMS[k])]
      \o [k \in 1..(Len(SVM_VARIANTS) * Len(ALGORITHMS)) |->
            SvmCase(Outer(SVM_VARIANTS, ALGORITHMS, k), Inner(ALGORITHMS, k))]

\* format_test_name
FormatTestName(tc) ==
    IF tc.variant # NoVariant
    THEN tc.problem \o "[" \o tc.variant \o "] + " \o tc.algorithm
    ELSE tc.problem \o " + " \o tc.algorithm

\* `if args.x:` - the option was given and is not the empty string
Given(x) == x # None /\ x # ""

\* lines 197-202: the filter
Filter(cases, a) ==
    LET by_problem ==
            IF Given(a.problem)
            THEN SelectSeq(cases, LAMBDA tc : tc.problem = a.problem)
            ELSE cases
    IN IF Given(a.algorithm)
       THEN SelectSeq(by_problem, LAMBDA tc : tc.algorithm = a.algorithm)
       ELSE by_problem

\* lines 93-104: the problem lookup of run_single_test
LookupProblem(tc, file_ok) ==
    IF tc.problem \in Range(PURE_PROBLEMS)
    THEN GetProblem(tc.problem)
    ELSE GetDataProblem(tc.problem, tc.variant, file_ok)

\* lines 229-243: the entry of a compared configuration, put in its bucket
\* (Store_SuspiciousAlsoFails is the mutant that files a SUSPICIOUS entry
\* under 'fail' as well)
Entry(tc, st, iss) == [test_name |-> FormatTestName(tc), status |-> st, issues |-> iss]
Store_SuspiciousAlsoFails(res, entry) ==
    IF entry.status = PASS
    THEN [res EXCEPT !.pass = Append(@, entry)]
    ELSE IF entry.status = SUSPICIOUS
    THEN [res EXCEPT !.suspicious = Append(@, entry), !.fail = Append(@, entry)]
    ELSE [res EXCEPT !.fail = Append(@, entry)]
Store(res, entry) ==
    IF entry.status = PASS
    THEN [res EXCEPT !.pass = Append(@, entry)]
    ELSE IF entry.status = SUSPICIOUS
    THEN [res EXCEPT !.suspicious = Append(@, entry)]
    ELSE [res EXCEPT !.fail = Append(@, entry)]

\* lines 252-262: the except clause of the loop body
OnException(res, tc, text) ==
    [res EXCEPT !.fail = Append(@, Entry(tc, FAIL, <<"Exception: " \o text>>))]

\* mutant: the loop is left when a configuration raised
LoopDone_StopOnException(k, cases, raised) == k = Len(cases) \/ raised

\* the for loop of line 220 ends when the list is exhausted; the except
\* clause swallows the exception, so a raise does not end it
LoopDone(k, cases, raised) == k = Len(cases)

\* mutant: a SUSPICIOUS configuration fails the run
ExitCode_SuspiciousFails(res) ==
    IF res.fail = <<>> /\ res.suspicious = <<>> THEN 0 ELSE 1

\* line 268
ExitCode(res) == IF res.fail = <<>> THEN 0 ELSE 1

\* print_summary
Summary(res) ==
    [printed |-> TRUE,
     total |-> Len(res.pass) + Len(res.suspicious) + Len(res.fail),
     pass |-> Len(res.pass), suspicious |-> Len(res.suspicious),
     fail |-> Len(res.fail)]

\* the longest filtered list of a modelled run
MaxCases == 4

\* the command lines
ArgValues ==
    [problem : {None, "", "quadratic", SADDLE, "himmelblau",
                "logistic-regression", "separating-hyperplane", "nosuch"},
     algorithm : {None, "gd-fixed", "newton", "cg"}]

\* what run_scipy_optimizer returns in a batch run
PythonResults ==
    { [converged |-> TRUE, iterations |-> 5, final_loss |-> Fin(100),
       final_w |-> Pos(1, 0)],
      [converged |-> FALSE, iterations |-> 100, final_loss |-> Fin(105),
       final_w |-> Pos(10, 0)] }

\* how the external process ends in a batch run
GoodReport ==
    Line(<<CheckMark, "CONVERGED", "in", "5", "iterations">>)
      \o Line(<<"Final", "loss:", "1.0e-08">>)
      \o Line(<<"Final", "grad", "norm:", "1e-07">>)
      \o Line(<<"Final", "position:", "[0.1, 0.0]">>)
NotConvergedReport ==
    Line(<<WarnMark, "DID", "NOT", "CONVERGE", "(reached", "maxIter=100)">>)
      \o Line(<<"Iterations:", "100">>)
      \o Line(<<"Final", "loss:", "1.0e-08">>)
      \o Line(<<"Final", "grad", "norm:", "1e-07">>)
BrokenReport ==
    Line(<<CheckMark, "CONVERGED", "in", "5", "iterations">>)
      \o Line(<<"Final", "loss:", "abc">>)
BatchProcessOutcomes ==
    { [kind |-> "timeout"],
      [kind |-> "exit", returncode |-> 1, stdout |-> <<>>,
       stderr |-> "npm ERR! missing script: test-combo"] } \cup
    { [kind |-> "exit", returncode |-> 0, stdout |-> o, stderr |-> ""] :
        o \in {GoodReport, NotConvergedReport, BrokenReport} }

EmptyResults == [pass |-> <<>>, suspicious |-> <<>>, fail |-> <<>>]

InitBatch ==
    /\ CmpIdle /\ GDIdle /\ TSIdle /\ CatIdle /\ SingleIdle /\ VerifyIdle
    /\ batch_pc = "start"
    /\ args \in ArgValues
    /\ Len(Filter(GetTestCases, args)) <= MaxCases
    /\ test_cases = <<>> /\ case_idx = 0 /\ processed = <<>>
    /\ results = EmptyResults
    /\ last = [kind |-> "none"] /\ summary = [printed |-> FALSE] /\ exit_code = -1

\* main, lines 183-218: parse the arguments, filter, leave with 1 when the
\* list is empty
MainStart ==
    /\ batch_pc = "start"
    /\ test_cases' = Filter(GetTestCases, args)
    /\ IF Filter(GetTestCases, args) = <<>>
       THEN batch_pc' = "exited" /\ exit_code' = 1
       ELSE batch_pc' = "loop" /\ UNCHANGED exit_code
    /\ results' = EmptyResults
    /\ UNCHANGED <<cmp_vars, gd_vars, opt_vars, ts_vars, cat_vars, args,
                   case_idx, processed, last, summary, st_pc, test_case, call_log, fd_pc, fd_problem,
                   fd_results>>

\* main, lines 220-262: one pass of the loop
RunTest ==
    /\ batch_pc = "loop"
    /\ ~LoopDone(case_idx, test_cases, last.kind = "exception")
    /\ LET tc == test_cases[case_idx + 1] IN
       \E file_ok \in BOOLEAN, py \in PythonResults, p \in BatchProcessOutcomes :
          LET lookup == LookupProblem(tc, file_ok)
              ts == BridgeResult(p, tc.initial)
              cmp == CompareResults(py, ts, tc.problem)
          IN IF lookup.kind = "raised"
             THEN /\ spawned' = spawned
                  /\ results' = OnException(results, tc, lookup.text)
                  /\ last' = [kind |-> "exception", text |-> lookup.text,
                              error |-> lookup.error,
                              entry |-> Entry(tc, FAIL, <<"Exception: " \o lookup.text>>)]
             ELSE /\ spawned' = spawned + SubprocessRuns(p)
                  /\ results' = Store(results, Entry(tc, cmp.status, cmp.issues))
                  /\ last' = [kind |-> "compared", proc |-> p,
                              python_result |-> py, ts_result |-> ts,
                              problem |-> tc.problem,
                              entry |-> Entry(tc, cmp.status, cmp.issues)]
    /\ processed' = Append(processed, test_cases[case_idx + 1])
    /\ case_idx' = case_idx + 1
    /\ UNCHANGED <<cmp_vars, gd_vars, opt_vars, cat_vars, ts_pc, proc, initial,
                   ts_out, batch_pc, args, test_cases, summary, exit_code,
                   st_pc, test_case, call_log, fd_pc, fd_problem,
                   fd_results>>

\* main, lines 264-268: the summary and the exit status
MainExit ==
    /\ batch_pc = "loop"
    /\ LoopDone(case_idx, test_cases, last.kind = "exception")
    /\ summary' = Summary(results)
    /\ exit_code' = ExitCode(results)
    /\ batch_pc' = "exited"
    /\ UNCHANGED <<cmp_vars, gd_vars, opt_vars, ts_vars, cat_vars, args,
                   test_cases, case_idx, processed, results, last,
                   st_pc, test_case, call_log, fd_pc, fd_problem,
                   fd_results>>

NextBatch ==
    \/ MainStart
    \/ RunTest
    \/ MainExit

SpecBatch == InitBatch /\ [][NextBatch]_vars

(***************************************************************************)
(*      validate_with_python.py : run_single_test, one call at a time      *)
(***************************************************************************)
\* the configurations run_single_test is called with: the generated ones,
\* and four with a name that some callee does not know
SingleTestCases ==
    Range(GetTestCases) \cup
    { PureCase("quadratic", "cg"),
      DataCase("nosuch", NoVariant, "newton"),
      DataCase("nosuch", NoVariant, "cg"),
      SvmCase("hinge", "gd-fixed") }

\* lines 93-104: the function that resolves the problem
LookupCall(tc) ==
    IF tc.problem \in Range(PURE_PROBLEMS) THEN "get_problem" ELSE "get_data_problem"

\* the body of run_single_test has no try: a statement that raises ends
\* the call, otherwise the next statement follows (NextStep_BridgeFirst is
\* the mutant that starts the external process before the reference driver)
NextStep_BridgeFirst(at, raised) ==
    IF raised THEN "raised"
    ELSE IF at = "lookup" THEN "bridge"
    ELSE IF at = "bridge" THEN "python"
    ELSE IF at = "python" THEN "compare"
    ELSE "returned"
NextStep(at, raised) ==
    IF raised THEN "raised"
    ELSE IF at = "lookup" THEN "python"
    ELSE IF at = "python" THEN "bridge"
    ELSE IF at = "bridge" THEN "compare"
    ELSE "returned"

InitSingleTest ==
    /\ CmpIdle /\ GDIdle /\ TSIdle /\ CatIdle /\ VerifyIdle
    /\ batch_pc = "idle" /\ args = [problem |-> "None", algorithm |-> "None"]
    /\ test_cases = <<>> /\ case_idx = 0 /\ processed = <<>>
    /\ results = EmptyResults
    /\ last = [kind |-> "none"] /\ summary = [printed |-> FALSE] /\ exit_code = -1
    /\ st_pc = "lookup"
    /\ test_case \in SingleTestCases
    /\ call_log = <<>>

\* lines 93-104: get_problem or get_data_problem
ResolveProblem ==
    /\ st_pc = "lookup"
    /\ \E file_ok \in BOOLEAN :
          st_pc' = NextStep("lookup", LookupProblem(test_case, file_ok).kind = "raised")
    /\ call_log' = Append(call_log, LookupCall(test_case))
    /\ UNCHANGED <<cmp_vars, gd_vars, opt_vars, ts_vars, cat_vars, batch_pc, args,
                   test_cases, case_idx, processed, results, last, summary,
                   exit_code, test_case, fd_pc, fd_problem, fd_results>>

\* lines 106-114: run_scipy_optimizer, which raises for an algorithm name it
\* does not know and returns a result dict otherwise
RunPython ==
    /\ st_pc = "python"
    /\ st_pc' = NextStep("python", Dispatch(test_case.algorithm) = "raised")
    /\ IF Dispatch(test_case.algorithm) = "raised"
       THEN UNCHANGED python_result
       ELSE python_result' \in PythonResults
    /\ call_log' = Append(call_log, "run_scipy_optimizer")
    /\ UNCHANGED <<cmp_pc, ts_result, problem_name, status, issues, gd_vars,
                   opt_vars, ts_vars, cat_vars, batch_pc, args, test_cases,
                   case_idx, processed, results, last, summary, exit_code,
                   test_case, fd_pc, fd_problem, fd_results>>

\* lines 116-125: run_typescript_test, which never raises
RunBridge ==
    /\ st_pc = "bridge"
    /\ st_pc' = NextStep("bridge", FALSE)
    /\ \E p \in BatchProcessOutcomes :
          /\ ts_result' = BridgeResult(p, test_case.initial)
          /\ spawned' = spawned + SubprocessRuns(p)
    /\ call_log' = Append(call_log, "run_typescript_test")
    /\ UNCHANGED <<cmp_pc, python_result, problem_name, status, issues, gd_vars,
                   opt_vars, ts_pc, proc, initial, ts_out, cat_vars, batch_pc,
                   args, test_cases, case_idx, processed, results, last, summary,
                   exit_code, test_case, fd_pc, fd_problem, fd_results>>

\* lines 128-130: compare_results and the return
CompareStep ==
    /\ st_pc = "compare"
    /\ st_pc' = NextStep("compare", FALSE)
    /\ problem_name' = test_case.problem
    /\ status' = CompareResults(python_result, ts_result, test_case.problem).status
    /\ issues' = CompareResults(python_result, ts_result, test_case.problem).issues
    /\ call_log' = Append(call_log, "compare_results")
    /\ UNCHANGED <<cmp_pc, python_result, ts_result, gd_vars, opt_vars, ts_vars,
                   cat_vars, batch_pc, args, test_cases, case_idx, processed,
                   results, last, summary, exit_code, test_case, fd_pc,
                   fd_problem, fd_results>>

NextSingleTest ==
    \/ ResolveProblem
    \/ RunPython
    \/ RunBridge
    \/ CompareStep

SpecSingleTest == InitSingleTest /\ [][NextSingleTest]_vars

(***************************************************************************)
(*   test_gradient_verification.py over data_problems.py, exact numbers    *)
(***************************************************************************)
\* A real number r is held exactly, as the polynomial in the step h of the
\* finite difference (epsilon) that equals Unit * r, with integer
\* coefficients: c[0] + c[1] h + ... + c[Deg] h^Deg.
Unit == 2000
Deg == 4
Degrees == 0..Deg
Mono(c, d) == [k \in Degrees |-> IF k = d THEN c ELSE 0]
Zero == Mono(0, 0)
Real(n) == Mono(n * Unit, 0)
Tenths(n) == Mono(n * (Unit \div 10), 0)
PAdd(p, q) == [k \in Degrees |-> p[k] + q[k]]
PSub(p, q) == [k \in Degrees |-> p[k] - q[k]]
PScale(n, p) == [k \in Degrees |-> n * p[k]]
PDiv(p, n) == [k \in Degrees |-> p[k] \div n]
RECURSIVE Conv(_, _, _, _)
Conv(p, q, k, j) ==
    IF j > k THEN 0 ELSE p[j] * q[k - j] + Conv(p, q, k, j + 1)
PMul(p, q) == PDiv([k \in Degrees |-> Conv(p, q, k, 0)], Unit)

\* the sign of a number: that of its lowest non-zero coefficient, which is
\* the sign at h = 1e-7 and at h = 1e-5 as long as no later coefficient is
\* 50000 times the lowest one or more (Dominated)
RECURSIVE SignFrom(_, _)
SignFrom(p, k) ==
    IF k > Deg THEN 0
    ELSE IF p[k] > 0 THEN 1
    ELSE IF p[k] < 0 THEN -1
    ELSE SignFrom(p, k + 1)
PSign(p) == SignFrom(p, 0)
Dominated(p) ==
    \A k \in Degrees :
        (p[k] # 0 /\ \A m \in 0..(k - 1) : p[m] = 0) =>
            \A j \in (k + 1)..Deg : (Abs(p[j]) \div 50000) < Abs(p[k])
PAbs(p) == IF PSign(p) < 0 THEN PScale(-1, p) ELSE p
PLess(p, q) == PSign(PSub(q, p)) > 0
PMax(p, q) == IF PLess(p, q) THEN q ELSE p

\* np.maximum(0, x)
Maximum0(p) == IF PSign(p) > 0 THEN p ELSE Zero

\* multiplication by lambda_reg = 0.1 (main, line 146), and by 0.5
LambdaInv == 10
LambdaReg(p) == PDiv(p, LambdaInv)
Half(p) == PDiv(p, 2)

\* data_problems.py, the constructors: the row [x1, x2, 1.0] of self.X and
\* the label 2 * y - 1 of self.y for a point of the dataset
Row(pt) == <<pt.x1, pt.x2, 1>>
Label(pt) == 2 * pt.y - 1
Components == 1..3

\* (self.X @ w)[i] and 1 - self.y[i] * z[i]
Z(pt, wt) == PAdd(PAdd(PScale(pt.x1, wt[1]), PScale(pt.x2, wt[2])), wt[3])
MarginOf(pt, wt) == PSub(Real(1), PScale(Label(pt), Z(pt, wt)))

\* w[0] ** 2 + w[1] ** 2
SqNorm(wt) == PAdd(PMul(wt[1], wt[1]), PMul(wt[2], wt[2]))

Classes == {"SoftMarginSVM", "PerceptronSVM", "SquaredHingeSVM"}

\* the term of one point in the sum of the objective
PointLoss(cls, pt, wt) ==
    IF cls = "PerceptronSVM" THEN Maximum0(PScale(-Label(pt), Z(pt, wt)))
    ELSE IF cls = "SoftMarginSVM" THEN Maximum0(MarginOf(pt, wt))
    ELSE PMul(Maximum0(MarginOf(pt, wt)), Maximum0(MarginOf(pt, wt)))
RECURSIVE SumLoss(_, _, _, _)
SumLoss(cls, data, wt, n) ==
    IF n = 0 THEN Zero
    ELSE PAdd(SumLoss(cls, data, wt, n - 1), PointLoss(cls, data[n], wt))

\* objective(w) of the three margin classifiers
ObjectiveOf(cls, data, wt) ==
    IF cls = "PerceptronSVM"
    THEN PAdd(SumLoss(cls, data, wt, Len(data)), Half(LambdaReg(SqNorm(wt))))
    ELSE PAdd(Half(SqNorm(wt)), LambdaReg(SumLoss(cls, data, wt, Len(data))))

\* gradient(w): the regularization term it starts with (GradStart_WithBias
\* is the mutant that regularizes the bias coordinate too), and what one
\* point takes off it
GradStart_WithBias(cls, wt) ==
    IF cls = "PerceptronSVM"
    THEN <<LambdaReg(wt[1]), LambdaReg(wt[2]), LambdaReg(wt[3])>>
    ELSE <<wt[1], wt[2], wt[3]>>
GradStart(cls, wt) ==
    IF cls = "PerceptronSVM"
    THEN <<LambdaReg(wt[1]), LambdaReg(wt[2]), Zero>>
    ELSE <<wt[1], wt[2], Zero>>
PointGrad(cls, pt, wt) ==
    IF cls = "PerceptronSVM"
    THEN IF PSign(PScale(Label(pt), Z(pt, wt))) < 0
         THEN [c \in Components |-> Real(Label(pt) * Row(pt)[c])]
         ELSE [c \in Components |-> Zero]
    ELSE IF PSign(MarginOf(pt, wt)) <= 0
    THEN [c \in Components |-> Zero]
    ELSE IF cls = "SoftMarginSVM"
    THEN [c \in Components |-> LambdaReg(Real(Label(pt) * Row(pt)[c]))]
    ELSE [c \in Components |->
            PScale(2 * Label(pt) * Row(pt)[c], LambdaReg(MarginOf(pt, wt)))]
RECURSIVE SumGrad(_, _, _, _)
SumGrad(cls, data, wt, n) ==
    IF n = 0 THEN GradStart(cls, wt)
    ELSE [c \in Components |->
            PSub(SumGrad(cls, data, wt, n - 1)[c], PointGrad(cls, data[n], wt)[c])]
GradientOf(cls, data, wt) == SumGrad(cls, data, wt, Len(data))

\* hessian(w), which SquaredHingeSVM defines and the other two do not
HasHessian(cls) == cls = "SquaredHingeSVM"
HessStart ==
    [r \in Components |-> [c \in Components |->
        IF r = c /\ r # 3 THEN Real(1) ELSE Zero]]
PointHess(pt, wt) ==
    [r \in Components |-> [c \in Components |->
        IF PSign(MarginOf(pt, wt)) > 0
        THEN LambdaReg(Real(2 * Row(pt)[r] * Row(pt)[c]))
        ELSE Zero]]
RECURSIVE SumHess(_, _, _)
SumHess(data, wt, n) ==
    IF n = 0 THEN HessStart
    ELSE [r \in Components |-> [c \in Components |->
            PAdd(SumHess(data, wt, n - 1)[r][c], PointHess(data[n], wt)[r][c])]]
HessianOf(data, wt) == SumHess(data, wt, Len(data))

\* w_plus[i] += epsilon, w_minus[i] -= epsilon: s is +1 or -1
Shifted(wt, c, s) == [wt EXCEPT ![c] = PAdd(@, Mono(s * Unit, 1))]

\* the quotients by 2 * epsilon and by 4 * epsilon**2 of a difference
Over2h(p) == [k \in Degrees |-> IF k + 1 > Deg THEN 0 ELSE p[k + 1] \div 2]
Over4hh(p) == [k \in Degrees |-> IF k + 2 > Deg THEN 0 ELSE p[k + 2] \div 4]

\* numerical_gradient(problem.objective, w)
NumericalGradient(cls, data, wt) ==
    [c \in Components |->
        Over2h(PSub(ObjectiveOf(cls, data, Shifted(wt, c, 1)),
                    ObjectiveOf(cls, data, Shifted(wt, c, -1))))]

\* numerical_hessian(problem.objective, w)
NumericalHessian(cls, data, wt) ==
    [r \in Components |-> [c \in Components |->
        Over4hh(PAdd(PSub(PSub(
            ObjectiveOf(cls, data, Shifted(Shifted(wt, r, 1), c, 1)),
            ObjectiveOf(cls, data, Shifted(Shifted(wt, r, 1), c, -1))),
            ObjectiveOf(cls, data, Shifted(Shifted(wt, r, -1), c, 1))),
            ObjectiveOf(cls, data, Shifted(Shifted(wt, r, -1), c, -1))))]]

\* 1e-10, the floor of the scale: 2000 * 1e-10 is 2 h for h = 1e-7 and
\* 2000 h^2 for h = 1e-5
TinyGradient == Mono(2, 1)
TinyHessian == Mono(Unit, 2)

\* 1 / threshold of test_gradient and of test_hessian
GradientThresholdInv == 10000
HessianThresholdInv == 1000

\* rel_error < threshold, with rel_error = abs_error / scale and
\* scale = max(abs(analytic), abs(numeric), 1e-10)
RelErrorBelow(analytic, numeric, tiny, threshold_inv) ==
    LET abs_error == PAbs(PSub(analytic, numeric))
        scale == PMax(PMax(PAbs(analytic), PAbs(numeric)), tiny)
    IN PLess(PScale(threshold_inv, abs_error), scale)

\* max(errors) < threshold in test_gradient and in test_hessian
GradientPasses(analytic, numeric) ==
    \A c \in Components :
        RelErrorBelow(analytic[c], numeric[c], TinyGradient, GradientThresholdInv)
HessianPasses(analytic, numeric) ==
    \A r \in Components : \A c \in Components :
        RelErrorBelow(analytic[r][c], numeric[r][c], TinyHessian, HessianThresholdInv)

\* main, line 147: the point the derivatives are tested at
w_test == <<Tenths(5), Tenths(-3), Tenths(2)>>

\* the datasets: up to MaxPoints points with small integer coordinates and
\* a 0/1 label, none of them at a kink of a loss for w_test (z = 0 for the
\* perceptron loss, margin = 0 for the hinge losses)
MaxPoints == 2
OnKink(pt, wt) == PSign(Z(pt, wt)) = 0 \/ PSign(MarginOf(pt, wt)) = 0
DataPoints ==
    { pt \in [x1 : -1..2, x2 : -1..0, y : {0, 1}] : ~OnKink(pt, w_test) }
PointLists == UNION { [1..n -> DataPoints] : n \in 1..MaxPoints }

MainIdle ==
    /\ batch_pc = "idle" /\ args = [problem |-> "None", algorithm |-> "None"]
    /\ test_cases = <<>> /\ case_idx = 0 /\ processed = <<>>
    /\ results = EmptyResults
    /\ last = [kind |-> "none"] /\ summary = [printed |-> FALSE] /\ exit_code = -1

InitVerify ==
    /\ CmpIdle /\ GDIdle /\ TSIdle /\ CatIdle /\ MainIdle /\ SingleIdle
    /\ fd_pc = "gradient"
    /\ fd_problem \in [class : Classes, data : PointLists]
    /\ fd_results = <<>>

\* test_gradient(name, problem, w_test)
TestGradient ==
    /\ fd_pc = "gradient"
    /\ LET analytic_grad == GradientOf(fd_problem.class, fd_problem.data, w_test)
           numeric_grad == NumericalGradient(fd_problem.class, fd_problem.data, w_test)
       IN fd_results' = Append(fd_results,
              [name |-> fd_problem.class \o " Gradient",
               analytic |-> analytic_grad, numeric |-> numeric_grad,
               passed |-> GradientPasses(analytic_grad, numeric_grad)])
    /\ fd_pc' = IF HasHessian(fd_problem.class) THEN "hessian" ELSE "done"
    /\ UNCHANGED <<cmp_vars, gd_vars, opt_vars, ts_vars, cat_vars, batch_pc, args,
                   test_cases, case_idx, processed, results, last, summary,
                   exit_code, st_pc, test_case, call_log, fd_problem>>

\* test_hessian(name, problem, w_test)
TestHessian ==
    /\ fd_pc = "hessian"
    /\ LET analytic_hessian == HessianOf(fd_problem.data, w_test)
           numeric_hessian == NumericalHessian(fd_problem.class, fd_problem.data, w_test)
       IN fd_results' = Append(fd_results,
              [name |-> fd_problem.class \o " Hessian",
               analytic |-> analytic_hessian, numeric |-> numeric_hessian,
               passed |-> HessianPasses(analytic_hessian, numeric_hessian)])
    /\ fd_pc' = "done"
    /\ UNCHANGED <<cmp_vars, gd_vars, opt_vars, ts_vars, cat_vars, batch_pc, args,
                   test_cases, case_idx, processed, results, last, summary,
                   exit_code, st_pc, test_case, call_log, fd_problem>>

NextVerify ==
    \/ TestGradient
    \/ TestHessian

SpecVerify == InitVerify /\ [][NextVerify]_vars

(***************************************************************************)
(*                     Properties of compare_results                       *)
(***************************************************************************)
Returned == cmp_pc = "returned"
BothConverged == python_result.converged /\ ts_result.converged
BothNotConverged == ~python_result.converged /\ ~ts_result.converged

\* C1: the status of compare_results(A, B, name) equals the status of
\* compare_results(B, A, name) for every pair of records and every name.
C1_SwapInvariant ==
    Returned =>
        status = CompareResults(ts_result, python_result, problem_name).status

\* C2: for 'non-convex-saddle', two records with converged=false give PASS
\* with the single issue 'Both correctly diverged (unbounded problem)',
\* whatever their iteration counts, losses and positions are.
C2_SaddleBothDivergedPass ==
    (Returned /\ problem_name = "non-convex-saddle" /\ BothNotConverged) =>
        /\ status = PASS
        /\ issues = <<"Both correctly diverged (unbounded problem)">>

C2_Witness ==
    /\ Returned /\ problem_name = "non-convex-saddle" /\ BothNotConverged
    /\ python_result.final_loss = Inf /\ ts_result.final_loss = Fin(100)
    /\ python_result.iterations = 4 /\ ts_result.iterations = 1
    /\ python_result.final_w = Pos(8, 8) /\ ts_result.final_w = Pos(0, 0)
    /\ status = PASS

\* C3: whenever the two converged flags differ the verdict is FAIL with a
\* convergence-mismatch issue, for every problem name, the saddle included.
C3_MismatchFails ==
    (Returned /\ python_result.converged # ts_result.converged) =>
        /\ status = FAIL
        /\ issues = <<"Convergence mismatch">>

C3_Witness ==
    /\ Returned /\ problem_name = "non-convex-saddle"
    /\ python_result.converged /\ ~ts_result.converged
    /\ python_result.final_loss = ts_result.final_loss
    /\ status = FAIL

\* C4: two records with converged=false on a problem other than
\* 'non-convex-saddle' give SUSPICIOUS.
C4_BothDivergedSuspicious ==
    (Returned /\ problem_name # "non-convex-saddle" /\ BothNotConverged) =>
        status = SUSPICIOUS

C4_Witness ==
    /\ Returned /\ problem_name = "quadratic" /\ BothNotConverged
    /\ python_result.final_loss = Fin(0) /\ ts_result.final_loss = Fin(0)
    /\ python_result.final_w = ts_result.final_w
    /\ status = SUSPICIOUS

\* The three FAIL tests of the both-converged branch, written on the inputs:
\* a non-finite loss; |lossA - lossB| / (|lossA| + 1e-10) > 0.10 (losses in
\* units of 1e-10); Euclidean distance > 1.0 (positions in units of 0.1).
InNonFinite ==
    python_result.final_loss.kind # "finite"
        \/ ts_result.final_loss.kind # "finite"
InRelLoss(num, den) ==
    /\ ~InNonFinite
    /\ den * Abs(python_result.final_loss.v - ts_result.final_loss.v)
          > num * (Abs(python_result.final_loss.v) + 1)
InDistSq ==
    LET a == python_result.final_w.c
        b == ts_result.final_w.c
    IN (a[1] - b[1]) * (a[1] - b[1]) + (a[2] - b[2]) * (a[2] - b[2])
InPosFinite ==
    python_result.final_w.kind = "finite" /\ ts_result.final_w.kind = "finite"
InFar == InPosFinite /\ InDistSq > 100
InIterRatio ==
    LET a == python_result.iterations
        b == ts_result.iterations
    IN a > 0 /\ b > 0 /\ (IF a >= b THEN a > 3 * b ELSE b > 3 * a)

\* C5: with both records converged the verdict is FAIL iff a final loss is
\* non-finite, or relative_loss_diff > 0.10, or the distance of the final
\* positions is > 1.0; the first test that holds, in that order, supplies
\* the single issue.
C5_FailRules ==
    (Returned /\ BothConverged) =>
        /\ status = FAIL <=> (InNonFinite \/ InRelLoss(10, 100) \/ InFar)
        /\ InNonFinite => issues = <<"Non-finite loss">>
        /\ (~InNonFinite /\ InRelLoss(10, 100)) => issues = <<"Loss differs">>
        /\ (~InNonFinite /\ ~InRelLoss(10, 100) /\ InFar)
              => issues = <<"Final positions differ">>

C5_Witness ==
    /\ Returned /\ BothConverged
    /\ python_result.final_loss = Fin(100) /\ ts_result.final_loss = Fin(111)
    /\ InFar
    /\ status = FAIL /\ issues = <<"Loss differs">>

\* C6: with both records converged and no FAIL test holding, the verdict is
\* SUSPICIOUS iff 0.01 < relative_loss_diff <= 0.10, or the iteration ratio
\* is > 3.0 with both counts > 0, or 0.1 < position_diff <= 1.0; otherwise it
\* is PASS with exactly the issue 'All metrics within tolerance'.  A relative
\* loss difference of 0.05 with equal positions and iteration counts gives
\* SUSPICIOUS.
C6_SuspiciousRules ==
    (Returned /\ BothConverged
        /\ ~(InNonFinite \/ InRelLoss(10, 100) \/ InFar)) =>
        LET susp == \/ InRelLoss(1, 100) /\ ~InRelLoss(10, 100)
                    \/ InIterRatio
                    \/ InPosFinite /\ InDistSq > 1 /\ InDistSq <= 100
        IN /\ status = SUSPICIOUS <=> susp
           /\ ~susp => (status = PASS
                          /\ issues = <<"All metrics within tolerance">>)
           /\ (/\ python_result.final_loss = Fin(100)
               /\ ts_result.final_loss = Fin(105)
               /\ python_result.final_w = ts_result.final_w
               /\ python_result.iterations = ts_result.iterations)
              => status = SUSPICIOUS

C6_Witness ==
    /\ Returned /\ BothConverged
    /\ python_result.final_loss = Fin(100) /\ ts_result.final_loss = Fin(105)
    /\ python_result.final_w = Pos(1, 0) /\ ts_result.final_w = Pos(1, 0)
    /\ python_result.iterations = 3 /\ ts_result.iterations = 3
    /\ status = SUSPICIOUS /\ issues = <<"Loss differs">>

(***************************************************************************)
(*                Properties of the gradient-descent drivers               *)
(***************************************************************************)
Done == pc = "done"
IsFixed == algorithm = "gd-fixed"
IsLineSearch == algorithm = "gd-linesearch"
LastRecord == iterations[Len(iterations)]

\* C7: every step size applied by line-search gradient descent either
\* satisfies the Armijo inequality at that step size or is the step size
\* evaluated on the 20th trial, and it is a step size some trial evaluated.
C7_AppliedStepWasTried ==
    IsLineSearch =>
        \A k \in DOMAIN applied :
            LET a == applied[k]
            IN /\ \/ a.armijo
                  \/ Len(a.trials) = 20 /\ a.alpha = a.trials[20].alpha
               /\ \E j \in DOMAIN a.trials : a.trials[j].alpha = a.alpha

\* The trials of one backtracking search: trial j has step size 2^-(j-1),
\* there are at most 20, and none but the last satisfies Armijo.
TrialsWellFormed(t) ==
    /\ Len(t) <= 20
    /\ \A j \in DOMAIN t : t[j].alpha * 2^(j - 1) = Scale
    /\ \A j \in DOMAIN t : t[j].armijo => j = Len(t)

\* C8: in each outer iteration the trial step sizes are 1, 1/2, 1/4, ...,
\* at most 20 trials are evaluated, and the search stops at the first trial
\* that satisfies Armijo: no trial follows it and its step size is the one
\* applied.
C8_BacktrackingSequence ==
    IsLineSearch =>
        /\ TrialsWellFormed(trials)
        /\ \A k \in DOMAIN applied :
              LET t == applied[k].trials
              IN /\ TrialsWellFormed(t)
                 /\ t # <<>>
                 /\ t[Len(t)].armijo => applied[k].alpha = t[Len(t)].alpha

C8_Witness ==
    /\ IsLineSearch
    /\ \E k \in DOMAIN applied :
          LET t == applied[k].trials
          IN /\ Len(t) = 3 /\ ~t[1].armijo /\ ~t[2].armijo /\ t[3].armijo
             /\ applied[k].alpha = Scale \div 4

\* C9: fixed-step gradient descent returns converged=true exactly when at some
\* loop index i < max_iter the gradient norm at the current position is < tol,
\* and then returns that position with no further update; otherwise it applies
\* exactly max_iter updates w <- w - alpha*grad and returns converged=false
\* with message 'Max iterations reached'.
C9_FixedStepOutcome ==
    (Done /\ IsFixed) =>
        /\ \A k \in DOMAIN applied :
              /\ applied[k].w_before = (IF k = 1 THEN x0 ELSE applied[k - 1].w_after)
              /\ applied[k].w_after =
                    applied[k].w_before - step * Gradient(problem, applied[k].w_before)
        /\ result.converged <=>
              \E k \in DOMAIN iterations :
                  /\ iterations[k].iter < max_iter
                  /\ Abs(Gradient(problem, iterations[k].w)) * 1000000 < 1
        /\ result.converged =>
              /\ LastRecord.iter < max_iter
              /\ Abs(Gradient(problem, LastRecord.w)) * 1000000 < 1
              /\ Len(applied) = LastRecord.iter
              /\ result.final_w = LastRecord.w
              /\ result.final_w = (IF applied = <<>> THEN x0
                                   ELSE applied[Len(applied)].w_after)
        /\ ~result.converged =>
              /\ Len(applied) = max_iter
              /\ result.message = "Max iterations reached"
              /\ result.final_w = (IF applied = <<>> THEN x0
                                   ELSE applied[Len(applied)].w_after)

C9_Witness ==
    /\ Done /\ IsFixed /\ result.converged
    /\ Len(applied) = 2 /\ x0 = 2 * Scale /\ result.final_w = 0

C9_WitnessExhausted ==
    /\ Done /\ IsFixed /\ ~result.converged
    /\ max_iter = 3 /\ Len(applied) = 3

\* C10: for both drivers the history records carry the indices 0, 1, 2, ...
\* in order; when the run converged, iterations = last index + 1 = history
\* length; when the cap was reached, iterations = max_iter, the history has
\* max_iter + 1 records and the last one is the position after the final
\* update.
C10_HistoryShape ==
    /\ pc # "idle" => \A k \in DOMAIN iterations : iterations[k].iter = k - 1
    /\ Done =>
          /\ result.iteration_history = iterations
          /\ result.converged =>
                /\ result.iterations = LastRecord.iter + 1
                /\ Len(iterations) = result.iterations
          /\ ~result.converged =>
                /\ result.iterations = max_iter
                /\ Len(iterations) = max_iter + 1
                /\ LastRecord.w = (IF applied = <<>> THEN x0
                                   ELSE applied[Len(applied)].w_after)

C10_Witness ==
    /\ Done /\ IsLineSearch /\ ~result.converged
    /\ max_iter = 3 /\ Len(iterations) = 4 /\ Len(applied) = 3

C10_WitnessConverged ==
    /\ Done /\ result.converged /\ Len(iterations) = 3 /\ result.iterations = 3

(***************************************************************************)
(*                 Properties of the delegated solvers                     *)
(***************************************************************************)
IsDelegate == algorithm \in DOMAIN MethodMap
IsPrefix(s, t) == Len(s) <= Len(t) /\ \A k \in DOMAIN s : t[k] = s[k]

\* the history is the callback's list: one record per invocation, indexed
\* from 0, and the returned count is the number of invocations
CallbackHistoryOk ==
    IsDelegate =>
        /\ Len(iterations) = calls
        /\ \A k \in DOMAIN iterations : iterations[k].iter = k - 1
        /\ Done => /\ result.iterations = calls
                    /\ result.iteration_history = iterations

\* a step either leaves the history alone or appends one record to it, and
\* it appends exactly when the callback is invoked
CallbackAppendsOnly ==
    IsDelegate =>
        /\ IsPrefix(iterations, iterations')
        /\ Len(iterations') = Len(iterations) + (calls' - calls)
        /\ calls' - calls \in {0, 1}

\* C16: for 'newton' and 'lbfgs' every callback invocation appends exactly
\* one record, the k-th record has index k-1, no record is removed or
\* rewritten, and the returned iterations field is the number of callback
\* invocations, whether the delegate returned or raised.
C16_OneRecordPerCallback == [](CallbackHistoryOk) /\ [][CallbackAppendsOnly]_vars

C16_Witness ==
    /\ Done /\ algorithm = "newton" /\ calls = 3
    /\ delegate_end.kind = "returned" /\ result.iterations = 3

\* C17: when the delegate raises, run_scipy_optimizer returns a dict with
\* converged = False, final_loss = inf, final_grad_norm = inf, final_w = x0,
\* the history captured so far and the message 'Error: <text>'.
C17_DelegateErrorResult ==
    delegate_end.kind = "raised" =>
        /\ pc = "done"
        /\ result.returned
        /\ ~result.converged
        /\ result.final_loss = Inf
        /\ result.final_grad_norm = Inf
        /\ result.final_w = x0
        /\ result.iteration_history = iterations
        /\ result.message = "Error: " \o delegate_end.text

C17_Witness ==
    /\ delegate_end.kind = "raised" /\ algorithm = "lbfgs"
    /\ calls = 2 /\ w # x0 /\ Len(result.iteration_history) = 2

KnownAlgorithms == {"gd-fixed", "gd-linesearch", "newton", "lbfgs"}

\* C18: the call is accepted exactly for 'gd-fixed', 'gd-linesearch',
\* 'newton' and 'lbfgs'; for any other name it raises 'Unknown algorithm'
\* with no evaluation of the problem made and the delegate not called.
C18_UnknownAlgorithmFailsFast ==
    pc # "start" =>
        /\ (algorithm \in KnownAlgorithms) <=> (pc # "raised")
        /\ pc = "raised" =>
              /\ result = [returned |-> FALSE, raised |-> "Unknown algorithm"]
              /\ evals = 0 /\ calls = 0 /\ ~delegated
              /\ iterations = <<>>

C18_Witness ==
    /\ pc = "raised" /\ algorithm = "cg" /\ evals = 0

(***************************************************************************)
(*                  Properties of the problem catalogue                    *)
(***************************************************************************)
DataProblemNames == {"logistic-regression", "separating-hyperplane"}
SvmVariants == {"soft-margin", "perceptron", "squared-hinge"}
RaisedBeforeOpen ==
    /\ cat_out.kind = "raised" /\ cat_out.error = "ValueError"
    /\ ~cat_out.open_called

\* C19: get_problem raises for a name outside its catalogue and returns
\* the problem of that name inside it; get_data_problem raises for a name
\* that is not a data problem and for an unknown variant of
\* 'separating-hyperplane', each time without having opened the dataset.
C19_UnknownNamesRaise ==
    cat_pc = "returned" =>
        /\ cat_call.fn = "get_problem" =>
              IF cat_call.name \in problems
              THEN cat_out.kind = "returned" /\ cat_out.bundle = cat_call.name
              ELSE RaisedBeforeOpen
        /\ cat_call.fn = "get_data_problem" =>
              /\ cat_call.name \notin DataProblemNames => RaisedBeforeOpen
              /\ (/\ cat_call.name = "separating-hyperplane"
                  /\ cat_call.variant \notin SvmVariants) => RaisedBeforeOpen

C19_Witness ==
    /\ cat_pc = "returned" /\ cat_call.fn = "get_data_problem"
    /\ cat_call.name = "separating-hyperplane" /\ cat_call.variant = "hinge"
    /\ cat_out.kind = "raised" /\ cat_out.text = "Unknown variant: hinge"

(***************************************************************************)
(*                       Properties of the bridge                          *)
(***************************************************************************)
BridgeReturned == ts_pc = "returned"
ProcessFailed ==
    \/ proc.kind = "timeout"
    \/ proc.kind = "exception"
    \/ proc.kind = "exit" /\ proc.returncode # 0
FailureMessage ==
    IF proc.kind = "timeout" THEN "Timeout after 30s"
    ELSE IF proc.kind = "exception" THEN "Error: " \o proc.text
    ELSE "CLI error: " \o proc.stderr

\* C11: run_typescript_test always returns a dict; on a timeout, a non-zero
\* exit status or another exception of the process run the dict has
\* converged = False, iterations = 0, final_loss = final_grad_norm = inf,
\* final_w = initial and the message 'Timeout after 30s', 'CLI error:
\* <stderr>' or 'Error: <text>'; the output of a process that exited with a
\* non-zero status is returned raw, not parsed.
C11_BridgeFailureRecord ==
    BridgeReturned =>
        /\ ts_out.returned
        /\ spawned = 1
        /\ ProcessFailed =>
              /\ ~ts_out.converged
              /\ ts_out.iterations = 0
              /\ ts_out.final_loss = Inf
              /\ ts_out.final_grad_norm = Inf
              /\ ts_out.final_w = initial
              /\ ts_out.message = FailureMessage
              /\ ts_out.raw_output = (IF proc.kind = "exit" THEN proc.stdout ELSE <<>>)

C11_Witness ==
    /\ BridgeReturned /\ proc.kind = "exit" /\ proc.returncode = 1
    /\ HasConvergedMarker(proc.stdout) /\ proc.stderr # ""
    /\ ~ts_out.converged /\ ts_out.final_loss = Inf

\* the expected fields of a report
MarkerMissing(out) ==
    ~(HasConvergedMarker(out) \/ HasDidNotConverge(out) \/ HasDiverged(out))
IterationCountMissing(out) ==
    /\ SearchIn(out) = 0
    /\ SearchAfter(out) = 0
    /\ SearchIterations(out) = 0
MetricMissingOrBad(out, k, width) ==
    \/ k = 0
    \/ /\ ~HasNaN(out[k + width].t) /\ ~HasInfinity(out[k + width].t)
       /\ ~FloatOf(out[k + width].t).ok
FieldMissingOrBad(out) ==
    \/ MarkerMissing(out)
    \/ IterationCountMissing(out)
    \/ MetricMissingOrBad(out, SearchLoss(out), 2)
    \/ MetricMissingOrBad(out, SearchGradNorm(out), 3)

\* C12: parse_ts_output returns a dict for every report, and a report in
\* which the convergence marker, the iteration count, the final loss or the
\* final gradient norm is missing or unparseable gives converged = False,
\* final_loss = inf and final_grad_norm = inf.
C12_MissingFieldFailureRecord ==
    (BridgeReturned /\ proc.kind = "exit" /\ proc.returncode = 0) =>
        /\ ts_out.returned
        /\ FieldMissingOrBad(proc.stdout) =>
              /\ ~ts_out.converged
              /\ ts_out.final_loss = Inf
              /\ ts_out.final_grad_norm = Inf

(***************************************************************************)
(*                      Properties of the batch run                        *)
(***************************************************************************)
Exited == batch_pc = "exited"
AllEntries == results.pass \o results.suspicious \o results.fail

\* the last pass ran the bridge and the external implementation failed
ExternalFailed ==
    /\ last.kind = "compared"
    /\ \/ last.proc.kind = "timeout"
       \/ last.proc.kind = "exit" /\ last.proc.returncode # 0
       \/ last.proc.kind = "exit" /\ last.proc.returncode = 0
            /\ last.ts_result.message # "Parsed from CLI output"
ConfigurationError == last.kind = "exception"

\* C13: a configuration whose external run failed (timeout, non-zero exit,
\* unparseable output) or whose processing raised is entered with status
\* FAIL and at least one issue, whatever the problem and the reference
\* driver's result.
C13_FailureIsFail ==
    (ExternalFailed \/ ConfigurationError) =>
        /\ last.entry.status = FAIL
        /\ Len(last.entry.issues) >= 1
        /\ results.fail # <<>>
        /\ results.fail[Len(results.fail)] = last.entry

\* C14: the configurations are processed in list order, each gets one
\* entry, a raise in one pass does not end the loop, and the summary is
\* printed only after the last configuration.
C14_LoopSurvivesExceptions ==
    /\ IsPrefix(processed, test_cases)
    /\ Len(processed) = case_idx
    /\ Len(AllEntries) = case_idx
    /\ summary.printed =>
          /\ Exited
          /\ processed = test_cases
          /\ summary.total = Len(test_cases)
    /\ (Exited /\ test_cases # <<>>) =>
          /\ summary.printed
          /\ processed = test_cases

C14_Witness ==
    /\ Exited /\ summary.printed /\ Len(test_cases) = 4
    /\ processed = test_cases
    /\ results.fail # <<>> /\ results.pass # <<>>
    /\ results.fail[1].test_name = FormatTestName(test_cases[1])
    /\ results.fail[1].issues = <<"Exception: [Errno 2] No such file or directory">>
    /\ results.pass[1].test_name = FormatTestName(test_cases[2])

\* C15 as stated: the exit status is non-zero exactly when a configuration
\* was given FAIL, a run with an empty filtered list included.
C15_ExitNonZeroIffFail ==
    Exited => ((exit_code # 0) <=> (results.fail # <<>>))

\* C15 amended: the exit status is non-zero exactly when a configuration
\* was given FAIL or the filter selected no configuration.
C15_ExitNonZeroIffFailOrEmpty ==
    Exited => ((exit_code # 0) <=> (results.fail # <<>> \/ test_cases = <<>>))

C15_Witness ==
    /\ Exited /\ args.algorithm = "cg" /\ args.problem = "quadratic"
    /\ test_cases = <<>> /\ results.fail = <<>> /\ exit_code = 1

(***************************************************************************)
(*              Further properties of compare_results                      *)
(***************************************************************************)
SuspiciousOrder ==
    <<"Loss differs", "Iteration count differs", "Final positions differ">>

\* C21: a FAIL verdict carries exactly one issue, a SUSPICIOUS verdict
\* carries one to three issues, which are either the both-diverged issue or
\* a selection of (loss, iteration count, position) in that order, and the
\* returned issue list is never empty.
C21_IssuesNonEmpty ==
    Returned =>
        /\ issues # <<>>
        /\ status = FAIL => Len(issues) = 1
        /\ status = SUSPICIOUS =>
              /\ Len(issues) \in 1..3
              /\ \/ issues = <<"Both diverged (unexpected for this problem)">>
                 \/ issues = SelectSeq(SuspiciousOrder,
                                       LAMBDA x : x \in Range(issues))

C21_Witness ==
    /\ Returned /\ status = SUSPICIOUS /\ Len(issues) = 3
    /\ issues = SuspiciousOrder

AnIterationCountIsZero ==
    python_result.iterations = 0 \/ ts_result.iterations = 0
InLossSuspicious == InRelLoss(1, 100) /\ ~InRelLoss(10, 100)
InPosSuspicious == InPosFinite /\ InDistSq > 1 /\ InDistSq <= 100

\* C24: with both records converged and an iteration count of 0, no
\* iteration-count issue is recorded however large the other count is, and
\* the verdict is the one the loss and position rules give.
C24_ZeroIterationsSkipRatio ==
    (Returned /\ BothConverged /\ AnIterationCountIsZero) =>
        /\ "Iteration count differs" \notin Range(issues)
        /\ status = FAIL <=> (InNonFinite \/ InRelLoss(10, 100) \/ InFar)
        /\ status = SUSPICIOUS <=>
              (/\ ~(InNonFinite \/ InRelLoss(10, 100) \/ InFar)
               /\ (InLossSuspicious \/ InPosSuspicious))
        /\ status = PASS <=>
              ~(InNonFinite \/ InRelLoss(10, 100) \/ InFar
                  \/ InLossSuspicious \/ InPosSuspicious)

C24_Witness ==
    /\ Returned /\ BothConverged
    /\ python_result.iterations = 0 /\ ts_result.iterations = MaxIterations
    /\ status = PASS

\* the verdict and issue list as a function of the flags and the name
FlagsVerdict(py_converged, ts_converged, name) ==
    IF py_converged # ts_converged
    THEN [status |-> FAIL, issues |-> <<"Convergence mismatch">>]
    ELSE IF name = SADDLE
    THEN [status |-> PASS,
          issues |-> <<"Both correctly diverged (unbounded problem)">>]
    ELSE [status |-> SUSPICIOUS,
          issues |-> <<"Both diverged (unexpected for this problem)">>]

\* C30: when at least one record has converged = False, the verdict and
\* the issue list are given by the two converged flags and the problem
\* name alone, whatever the losses, positions and iteration counts are.
C30_FlagsDecideWhenNotConverged ==
    (Returned /\ ~BothConverged) =>
        /\ status = FlagsVerdict(python_result.converged, ts_result.converged,
                                 problem_name).status
        /\ issues = FlagsVerdict(python_result.converged, ts_result.converged,
                                 problem_name).issues

C30_Witness ==
    /\ Returned /\ ~python_result.converged /\ ~ts_result.converged
    /\ python_result.final_loss = NaN /\ ts_result.final_loss = Inf
    /\ ts_result.final_w = PosNaN /\ ts_result.iterations = 0
    /\ problem_name # SADDLE /\ status = SUSPICIOUS

(***************************************************************************)
(*            Further properties of the hand-rolled drivers                *)
(***************************************************************************)
IsGD == IsFixed \/ IsLineSearch
FinalGradNormBelowTol == result.final_grad_norm * TolDen < TolNum

\* C27 as stated: for gd-fixed and gd-linesearch, converged = True if and
\* only if the returned final_grad_norm is below tol.
C27_ConvergedIffBelowTol ==
    (Done /\ IsGD) => (result.converged <=> FinalGradNormBelowTol)

\* C27 amended: converged = True implies final_grad_norm < tol; a run with
\* converged = False saw no gradient norm below tol at a loop index
\* i < max_iter, and its final_grad_norm is the gradient norm at the
\* position after the last update, which the drivers do not test.
C27_ConvergedImpliesBelowTol ==
    (Done /\ IsGD) =>
        /\ result.converged => FinalGradNormBelowTol
        /\ ~result.converged =>
              /\ \A k \in DOMAIN iterations :
                    iterations[k].iter < max_iter =>
                        ~(iterations[k].grad_norm * TolDen < TolNum)
              /\ result.final_grad_norm = GradNorm(Gradient(problem, result.final_w))
              /\ result.final_grad_norm = LastRecord.grad_norm
              /\ LastRecord.iter = max_iter

C27_Witness ==
    /\ Done /\ IsFixed /\ ~result.converged
    /\ max_iter = 2 /\ Len(applied) = 2 /\ x0 # 0
    /\ FinalGradNormBelowTol

(***************************************************************************)
(*               Further properties of the bridge and batch                *)
(***************************************************************************)
\* one pass of the loop has just been made
PassMade == case_idx' = case_idx + 1

\* C22: a pass of the batch loop that reaches the bridge starts the
\* external process exactly once, also when the process timed out, exited
\* with a non-zero status or printed an unparseable report; a pass that
\* raised before the bridge starts none; nothing else starts a process.
C22_NoRetry ==
    [][ /\ PassMade /\ last'.kind = "compared" => spawned' = spawned + 1
        /\ PassMade /\ last'.kind = "exception" => spawned' = spawned
        /\ ~PassMade => spawned' = spawned ]_vars

C22_Witness ==
    /\ ExternalFailed /\ last.proc.kind = "timeout"
    /\ case_idx = 2 /\ spawned = 2

\* the places (bucket, index) where the configuration named n has an entry
EntriesOf(n) ==
    {<<"pass", j>> : j \in {k \in DOMAIN results.pass : results.pass[k].test_name = n}}
    \cup {<<"suspicious", j>> :
            j \in {k \in DOMAIN results.suspicious :
                      results.suspicious[k].test_name = n}}
    \cup {<<"fail", j>> : j \in {k \in DOMAIN results.fail : results.fail[k].test_name = n}}

\* C25: every processed configuration has exactly one entry, in the bucket
\* of its status, no other entry exists, and the three counts of the
\* summary add up to the number of configurations processed.
C25_OneBucketEach ==
    /\ \A k \in DOMAIN processed :
          Cardinality(EntriesOf(FormatTestName(processed[k]))) = 1
    /\ Len(AllEntries) = Len(processed)
    /\ \A k \in DOMAIN results.pass : results.pass[k].status = PASS
    /\ \A k \in DOMAIN results.suspicious : results.suspicious[k].status = SUSPICIOUS
    /\ \A k \in DOMAIN results.fail : results.fail[k].status = FAIL
    /\ summary.printed =>
          /\ summary.pass = Len(results.pass)
          /\ summary.suspicious = Len(results.suspicious)
          /\ summary.fail = Len(results.fail)
          /\ summary.pass + summary.suspicious + summary.fail = Len(processed)
          /\ summary.total = Len(processed)

C25_Witness ==
    /\ Exited /\ summary.printed /\ Len(processed) = 4
    /\ summary.pass = 1 /\ summary.suspicious = 1 /\ summary.fail = 2

\* C28: no configuration of get_test_cases ends in an 'Unknown problem',
\* 'Unknown variant' or 'Unknown algorithm' error: the problem lookup of a
\* pass raises no ValueError and every algorithm name is one that
\* run_scipy_optimizer accepts.
C28_GeneratedNamesAccepted ==
    /\ \A k \in DOMAIN test_cases : Dispatch(test_cases[k].algorithm) # "raised"
    /\ ~(last.kind = "exception" /\ last.error = "ValueError")

\* the words that take a success back, looked for token by token
TokensOf(out) == {out[k].t : k \in DOMAIN out}
DivergenceWords == {"DIVERGED", "NaN", "Infinity"}
ContainsDivergence(out) ==
    \/ TokensOf(out) \cap DivergenceWords # {}
    \/ \E k \in DOMAIN out : Phrase(out, k, <<"DID", "NOT", "CONVERGE">>)

\* C29: a record of the bridge with converged = True has a finite
\* final_loss, and a report that contains 'DID NOT CONVERGE', 'DIVERGED',
\* 'NaN' or 'Infinity' gives converged = False, the convergence marker
\* notwithstanding.
C29_DivergenceOverrides ==
    BridgeReturned =>
        /\ ts_out.converged => ts_out.final_loss.kind = "finite"
        /\ (/\ proc.kind = "exit" /\ proc.returncode = 0
            /\ ContainsDivergence(proc.stdout)) => ~ts_out.converged

C29_Witness ==
    /\ BridgeReturned /\ proc.kind = "exit" /\ proc.returncode = 0
    /\ HasConvergedMarker(proc.stdout)
    /\ "Infinity" \in TokensOf(proc.stdout)
    /\ ~HasDidNotConverge(proc.stdout)
    /\ ts_out.final_loss = Fin(100) /\ ts_out.final_grad_norm = Inf
    /\ ts_out.message = "Parsed from CLI output"
    /\ ~ts_out.converged

(***************************************************************************)
(*                      Properties of run_single_test                      *)
(***************************************************************************)
ExpectedCalls ==
    <<LookupCall(test_case), "run_scipy_optimizer", "run_typescript_test",
      "compare_results">>
BridgeInvoked == spawned > 0 \/ "run_typescript_test" \in Range(call_log)
ComparatorInvoked == status # "" \/ "compare_results" \in Range(call_log)
UnknownProblem ==
    \/ test_case.problem \notin Range(PURE_PROBLEMS) \cup DataProblemNames
    \/ /\ test_case.problem \in Range(PURE_PROBLEMS)
       /\ test_case.problem \notin problems
UnknownVariant ==
    test_case.problem = "separating-hyperplane" /\ test_case.variant \notin SvmVariants
UnknownAlgorithm == test_case.algorithm \notin KnownAlgorithms

\* C26: run_single_test resolves the problem, then runs the reference
\* driver, then the bridge, then the comparator, in this order; when the
\* problem resolution or the driver raises (unknown problem, variant or
\* algorithm), neither the external process nor the comparator is invoked.
C26_CallOrder ==
    st_pc # "idle" =>
        /\ IsPrefix(call_log, ExpectedCalls)
        /\ st_pc = "returned" => call_log = ExpectedCalls /\ spawned = 1
        /\ st_pc = "raised" => ~BridgeInvoked /\ ~ComparatorInvoked
        /\ (UnknownProblem \/ UnknownVariant \/ UnknownAlgorithm) =>
              /\ ~BridgeInvoked /\ ~ComparatorInvoked
              /\ st_pc \in {"lookup", "python", "raised"}
              /\ (UnknownProblem \/ UnknownVariant) =>
                    "run_scipy_optimizer" \notin Range(call_log)

C26_Witness ==
    /\ st_pc = "raised" /\ UnknownAlgorithm /\ ~UnknownProblem
    /\ call_log = <<"get_problem", "run_scipy_optimizer">>
    /\ spawned = 0 /\ status = ""

=============================================================================
